---------------------------- MODULE Spec2Model ----------------------------
(***************************************************************************)
(* Storage engine of the S3-compatible object store:                       *)
(*   - the metadata tables (objects, object_versions, blobs,               *)
(*     idempotency_keys) kept in SQLite through gorm,                      *)
(*   - the BlobStore files of the filesystem driver,                       *)
(*   - the request handlers handlePut / handleGet / handleDelete,          *)
(*   - the background workers (lifecycle pass, blob GC).                   *)
(*                                                                         *)
(* A metadata transaction is opened by WithTxImmediate and its first       *)
(* statement is the UPDATE of LockObjectForUpdate, which takes the         *)
(* database's single write lock; the lock is held until commit or          *)
(* rollback.  A handler is therefore modelled as: the steps it takes       *)
(* outside the transaction, the step that takes the write lock, and one    *)
(* step that runs the transaction body and commits.  Effects on the        *)
(* BlobStore are not transactional: they stay when a transaction aborts.   *)
(***************************************************************************)
EXTENDS Integers, Sequences, FiniteSets, TLC

(* ------------------------------ bounds -------------------------------- *)
\* number of version ids GenVersionID hands out in one behaviour
MaxVid == 2
\* number of blob ids GenBlobID hands out in one behaviour
MaxBlob == 2
\* last value of the wall clock (created_at values are 0..MaxClock)
MaxClock == 1
\* a Batch of the lifecycle worker smaller than the number of rows to list
SmallBatch == 1
\* number of pages a client of ListObjectsV2 asks for
MaxPages == 4
\* greatest size of the stored body of a GET with Range
MaxSize == 2
\* greatest length of the range-spec after "bytes="
MaxSpecLen == 3

(* ----------------------------- value sets ----------------------------- *)
\* object keys of one bucket, as sequences of characters
Keys == {<<1>>, <<2>>}
\* request bodies
Bodies == {"A", "B"}
\* X-Idempotency-Key header values; "" is "header absent"
NoIdem == ""
IdemKeys == {NoIdem, "t"}
\* versionId "" (query parameter absent, or head_version_id never set)
NoVid == 0
\* blob_id NULL
NoBlob == 0
\* nobody holds the write lock
NoProc == 0
\* the bucket of the requests
Bucket == "b"
\* the batch main starts the lifecycle worker with
Batch == 50
\* the lifecycle worker, as holder of the write lock
LifecycleWorker == 8

VARIABLES
    versions,  \* rows of object_versions
    objects,   \* rows of objects, by key
    blobs,     \* rows of blobs
    idem,      \* rows of idempotency_keys
    store,     \* committed files of the BlobStore: [id, bytes]
    writer,    \* the handler or worker holding the database write lock
    nextVid,   \* number of version ids generated so far
    nextBlob,  \* number of blob ids generated so far
    now,       \* wall clock
    req,       \* per writing handler: position and request
    last,      \* the response of the writing handler that finished last
    get,       \* the GET handler: position, what it has read, its response
    lc,        \* the lifecycle worker: position, the rows it listed, the row at hand
    gc,        \* the BlobGC worker: position, the blobs it listed, the blob at hand
    lim,       \* of this behaviour: ids to hand out, last clock value; Batch of the worker
    buckets,   \* rows of buckets, by name
    lst,       \* a client of ListObjectsV2: its request, token and pages so far
    rg,        \* a GET with a Range header: the header and the response
    rules,     \* rows of lifecycle_rules, in the order of their insertion
    pl,        \* the handler of PUT ?lifecycle: position, request, rows written so far
    rd,        \* what the last reader of lifecycle_rules got
    ws,        \* a write session of the BlobStore and its temporary file
    au         \* the request AuthMiddleware saw last and what it did with it

vars == <<versions, objects, blobs, idem, store, writer, nextVid, nextBlob, now,
          req, last, get, lc, gc, lim, buckets, lst, rg, rules, pl, rd, ws, au>>
tables == <<versions, objects, blobs, idem>>
workers == <<lc, gc>>
policy == <<rules, pl, rd>>
Procs == DOMAIN req

(* ------------------------------ helpers ------------------------------- *)
\* checksum := "sha256:" + hex(sha256(body))
Checksum(body) == <<"sha256:", body>>
\* etag := `"` + checksum + `"`
ETag(body) == <<"\"", Checksum(body), "\"">>

NoRow == [present |-> FALSE, head |-> NoVid, createdAt |-> 0]
NoResp == [op |-> "none", status |-> 0, vid |-> NoVid, etag |-> <<>>, body |-> ""]
NoGetResp == [status |-> 0, vid |-> NoVid, bytes |-> ""]
\* asked is the versionId of the request.  since and first are not read by the
\* handler: the number of version ids handed out when the GET began, and the
\* answers that were right at that instant
IdleGet == [pc |-> "idle", key |-> <<>>, vid |-> NoVid, blob |-> NoBlob, resp |-> NoGetResp,
            since |-> 0, first |-> {}, asked |-> NoVid]
\* a row a worker listed: of a version its key, id and blob_id, of an Object
\* its key
NoCand == [key |-> <<>>, vid |-> NoVid, blob |-> NoBlob, createdAt |-> 0]
\* heads and prev are not read by the worker: the head_version_ids at the time
\* of the listing, and the row of the transaction that ended last
IdleLc == [pc |-> "idle", kind |-> "none", prefix |-> <<>>, days |-> 0, keep |-> 0,
           cands |-> {}, cur |-> NoCand, heads |-> {}, prev |-> NoCand]
IdleGc == [pc |-> "idle", cands |-> {}, cur |-> NoBlob]
IdleReq == [pc |-> "idle", op |-> "none", key |-> <<>>, body |-> "", idem |-> NoIdem,
            vid |-> NoVid, newBlob |-> NoBlob, user |-> 0]
\* before is not read by the handler: the table when its transaction began
IdlePolicy == [pc |-> "idle", bucket |-> "", cfg |-> <<>>, written |-> <<>>, status |-> 0,
               before |-> <<>>]
NoRead == [bucket |-> "", rows |-> <<>>]
\* the temporary file of a session: data is what was written to it, durable
\* the length of what is on the disk for certain
NoFile == [data |-> <<>>, durable |-> 0]
\* bodies is not read by the driver: the bytes each session was given, by blob id
IdleSession == [pc |-> "idle", id |-> NoBlob, body |-> <<>>, tmp |-> NoFile, bodies |-> {}]
\* Content-Range header absent
\* a nil *Result and a nil error of VerifySigV4
NoResult == [accessKeyID |-> ""]
NoErr == ""
NoRequest == [authz |-> "none", malformed |-> FALSE, scope |-> "ok", date |-> "ok",
              akid |-> "", content |-> "", sig |-> <<>>]
IdleAuth == [pc |-> "idle", r |-> NoRequest, allowNoSign |-> FALSE, res |-> NoResult,
             err |-> NoErr, status |-> 0, code |-> "", dispatched |-> FALSE, user |-> 0]

NoContentRange == <<>>
\* bytes says that the Range header begins with "bytes=", spec is what follows
IdleRange == [pc |-> "idle", bytes |-> FALSE, spec |-> <<>>, status |-> 0,
              contentRange |-> NoContentRange, contentLength |-> 0, body |-> <<>>]
\* delimiter "" (query parameter absent)
NoDelim == 0
\* continuation-token "": RawURLEncoding of the empty string
NoToken == [b64 |-> <<>>]
\* the ListV2Result of no request
NoPage == [Objects |-> <<>>, CommonPrefixes |-> <<>>, IsTruncated |-> FALSE,
           NextToken |-> NoToken, KeyCount |-> 0]
\* the client of the listing: its request, the keys and common prefixes of all
\* its pages so far, and the last page with the continuation-token it was asked with
IdleList == [pc |-> "idle", prefix |-> <<>>, delim |-> NoDelim, maxKeys |-> 0,
             startAfter |-> <<>>, token |-> NoToken, keys |-> <<>>, cps |-> <<>>, pages |-> 0,
             ct |-> NoToken, page |-> NoPage]


(* ------------------------- metadata operations ------------------------ *)
\* getUserIDFromCtx of the requests of the owner of the bucket
Owner == 1
\* getUserIDFromCtx when the middleware let a request without signature pass
NoUser == 0

\* FirstOrCreate of the bucket row WHERE name = ?: a new row has no owner; the
\* row found or made gets the caller as its owner when it has none and the
\* caller is a user.  The id returned is the id of the row of that name,
\* whoever owns it.
EnsureBucket(bk, name, ownerID) ==
    LET rows == IF \E b \in bk : b.name = name THEN bk
                ELSE bk \cup {[name |-> name, owner |-> NoUser]}
    IN  {IF b.name = name /\ b.owner = NoUser /\ ownerID # NoUser
         THEN [b EXCEPT !.owner = ownerID] ELSE b : b \in rows}

\* WHERE name = ? AND owner_id = ?; the set is empty on ErrNotFound
BucketIDByName(bk, name, ownerID) == {b \in bk : b.name = name /\ b.owner = ownerID}

\* the counts of the Object rows and of the version rows of the bucket, and
\* the DELETE of the bucket row when both are zero: the error it returns
DeleteBucketIfEmpty(objs, vs) ==
    IF \E k \in DOMAIN objs : objs[k].present THEN "ErrBucketNotEmpty"
    ELSE IF vs # {} THEN "ErrBucketNotEmpty"
    ELSE "nil"

\* UPDATE objects SET key = key ...; INSERT ... ON CONFLICT DO NOTHING when no
\* row was affected.  The new row has an empty head_version_id.
LockObjectForUpdate(objs, key) ==
    IF objs[key].present THEN objs
    ELSE [objs EXCEPT ![key] = [present |-> TRUE, head |-> NoVid, createdAt |-> now]]

\* a probe that never finds the record
GetIdempotencyMiss(idm, key, tok) == {}

\* SELECT ... WHERE bucket_id, key, idem_key; the set is empty on ErrNotFound
GetIdempotencyTx(idm, key, tok) ==
    {e \in idm : e.key = key /\ e.idemKey = tok}

\* INSERT ... ON CONFLICT DO NOTHING on the primary key (bucket_id, key, idem_key)
SaveIdempotencyTx(idm, key, tok, vid, etag) ==
    IF \E e \in idm : e.key = key /\ e.idemKey = tok THEN idm
    ELSE idm \cup {[key |-> key, idemKey |-> tok, vid |-> vid, etag |-> etag]}

\* a lookup that never finds the ready blob
FindBlobMiss(bl, checksum) == {}

\* a lookup that takes any ready blob for the one with the checksum
FindAnyReadyBlob(bl, checksum) == {b \in bl : b.state = "ready"}

\* WHERE checksum = ? AND state = 'ready'; the set is empty on ErrNotFound
FindBlobByChecksumTx(bl, checksum) ==
    {b \in bl : b.checksum = checksum /\ b.state = "ready"}

\* INSERT of a pending blob; ux_blobs_checksum rejects a second row with the checksum
ReserveBlobPendingOk(bl, id, checksum) ==
    ~ \E b \in bl : b.id = id \/ b.checksum = checksum

ReserveBlobPendingTx(bl, id, checksum) ==
    bl \cup {[id |-> id, checksum |-> checksum, state |-> "pending"]}

\* a blob left pending
MarkBlobReadySkipped(bl, id) == bl

\* UPDATE blobs SET state = 'ready' WHERE id = ?
MarkBlobReadyTx(bl, id) ==
    {IF b.id = id THEN [b EXCEPT !.state = "ready"] ELSE b : b \in bl}

\* a blob record that is not deleted
DeleteBlobRecordSkipped(bl, id) == bl

\* DELETE FROM blobs WHERE id = ?
DeleteBlobRecordTx(bl, id) ==
    {b \in bl : b.id # id}

\* SELECT * FROM blobs WHERE id = ?; the set is empty on ErrNotFound
GetBlob(bl, id) ==
    {b \in bl : b.id = id}

\* a version row that is not written
InsertVersionSkipped(vs, key, vid, blobID, body) == vs

\* INSERT of a non-delete version; created_at is the time of the insert.
\* body is not a column: it records the bytes of the request that made the row.
InsertObjectVersionTx(vs, key, vid, blobID, body) ==
    vs \cup {[vid |-> vid, key |-> key, blob |-> blobID, isDelete |-> FALSE,
              createdAt |-> now, body |-> body]}

\* INSERT of a delete-marker: is_delete = TRUE, blob_id NULL
CreateDeleteMarkerTx(vs, key, vid) ==
    vs \cup {[vid |-> vid, key |-> key, blob |-> NoBlob, isDelete |-> TRUE,
              createdAt |-> now, body |-> ""]}

\* a head that is not moved
SetHeadSkipped(objs, key, vid) == objs

\* UPDATE objects SET head_version_id = ? WHERE bucket_id = ? AND key = ?
SetHeadVersionTx(objs, key, vid) ==
    IF objs[key].present THEN [objs EXCEPT ![key].head = vid] ELSE objs

\* INSERT ... ON CONFLICT (bucket_id, key) DO UPDATE SET ..., head_version_id
UpsertObjectTx(objs, key, vid) ==
    IF objs[key].present THEN [objs EXCEPT ![key].head = vid]
    ELSE [objs EXCEPT ![key] = [present |-> TRUE, head |-> vid, createdAt |-> now]]

\* WHERE version_id = ? (no bucket or key in the condition); empty on ErrNotFound
GetVersionTx(vs, vid) ==
    {v \in vs : v.vid = vid}

\* the Object row of (bucket, key), then the version its head_version_id names;
\* empty on ErrNotFound of either read
GetHeadVersionTx(objs, vs, key) ==
    IF objs[key].present THEN {v \in vs : v.vid = objs[key].head} ELSE {}

\* WHERE bucket_id, key, version_id <> ? ORDER BY created_at DESC, first row:
\* every row with the greatest created_at may be the first one
GetPrevVersionTx(vs, key, cur) ==
    LET rest == {v \in vs : v.key = key /\ v.vid # cur}
    IN  {v \in rest : \A u \in rest : u.createdAt <= v.createdAt}

\* DELETE FROM object_versions WHERE version_id = ?
DeleteVersionTx(vs, vid) ==
    {v \in vs : v.vid # vid}

\* the ready blobs that no non-delete version references
BlobsForGCWithSize(bl, vs) ==
    {b.id : b \in {c \in bl : c.state = "ready"
                              /\ ~ \E v \in vs : v.blob = c.id /\ ~ v.isDelete}}

\* SELECT COUNT(*) FROM object_versions WHERE blob_id = ?
BlobRefCountFromVersionsTx(vs, blobID) ==
    Cardinality({v \in vs : v.blob = blobID})

(* --------------------------- lifecycle queries ------------------------ *)
\* key LIKE prefix || '%'
HasPrefix(key, prefix) ==
    /\ Len(prefix) <= Len(key)
    /\ \A i \in 1..Len(prefix) : key[i] = prefix[i]

\* is_delete = FALSE AND created_at < olderThan, under the prefix; the head is
\* not excluded
ListNoncurrentByAge(vs, prefix, olderThan) ==
    {v \in vs : HasPrefix(v.key, prefix) /\ ~ v.isDelete /\ v.createdAt < olderThan}

\* the non-delete versions that are not the head of their key's Object row, of
\* the keys that have more than keep of them, past the keep newest in the
\* order created_at DESC, version_id DESC
ListNoncurrentKeepNewest(vs, objs, prefix, keep) ==
    LET nc(k) == {v \in vs : v.key = k /\ ~ v.isDelete /\ objs[k].present
                              /\ v.vid # objs[k].head}
        newer(v) == {u \in nc(v.key) : \/ u.createdAt > v.createdAt
                                       \/ (u.createdAt = v.createdAt /\ u.vid > v.vid)}
    IN  {v \in vs : /\ HasPrefix(v.key, prefix)
                    /\ v \in nc(v.key)
                    /\ Cardinality(nc(v.key)) > keep
                    /\ Cardinality(newer(v)) >= keep}

\* is_delete = TRUE AND created_at < olderThan, under the prefix
ListDeleteMarkersForPurge(vs, prefix, olderThan) ==
    {v \in vs : HasPrefix(v.key, prefix) /\ v.isDelete /\ v.createdAt < olderThan}

\* the Object rows under the prefix whose own created_at < olderThan
ListHeadsOlderThan(objs, prefix, olderThan) ==
    {k \in DOMAIN objs : objs[k].present /\ HasPrefix(k, prefix)
                          /\ objs[k].createdAt < olderThan}

(* ------------------------------ BlobStore ----------------------------- *)
\* BeginWrite, Write, Commit: the file of id appears with all its bytes
StorageCommit(st, id, bytes) ==
    st \cup {[id |-> id, bytes |-> bytes]}

\* os.Remove of the final path; an absent file is no error
StorageDelete(st, id) ==
    {f \in st : f.id # id}

\* os.Open of the final path and the read of all of it; empty when it does not exist
StorageRead(st, id) ==
    {f.bytes : f \in {g \in st : g.id = id}}

(* --------------------------- transactions ----------------------------- *)
\* What a transaction body leaves behind when it commits: the tables, the
\* BlobStore, whether it consumed a fresh version id, and the response.
Outcome(vs, objs, bl, idm, st, used, resp) ==
    [versions |-> vs, objects |-> objs, blobs |-> bl, idem |-> idm, store |-> st,
     usedVid |-> used, resp |-> resp]

\* A transaction that returned an error or whose commit failed: the tables are
\* rolled back, the BlobStore keeps what the body did to it.
RolledBack(st, resp) ==
    Outcome(versions, objects, blobs, idem, st, FALSE, resp)

\* body is no part of a response: it records the request's bytes
Resp(op, status, vid, etag, body) ==
    [op |-> op, status |-> status, vid |-> vid, etag |-> etag, body |-> body]

\* a cleanup that leaves the staged bytes where they are
PutCleanupSkipped(st, newBlob, staged) == st

\* the cleanup after the transaction (298-301, 309-312): the bytes written under
\* the new blob id are deleted while they are staged
PutCleanup(st, newBlob, staged) ==
    IF staged THEN StorageDelete(st, newBlob) ELSE st

\* the statements of the PUT transaction that can return an error, and its commit
PutFaults == {"lock", "idem", "find", "reserve", "ready", "version", "upsert", "head",
              "commit"}

\* handlePut, the transaction and the cleanup after it, for the request r.
\* fault names the statement that fails (or the commit): the transaction is
\* rolled back and the handler answers InternalError.  A fault of a statement
\* the transaction does not reach has no effect.
handlePutTx(r, fault) ==
    LET objs1    == LockObjectForUpdate(objects, r.key)
        hit      == IF r.idem # NoIdem THEN GetIdempotencyTx(idem, r.key, r.idem) ELSE {}
        checksum == Checksum(r.body)
        etag     == ETag(r.body)
        exist    == FindBlobByChecksumTx(blobs, checksum)
        verID    == nextVid + 1
        failed(st, staged) ==
            RolledBack(PutCleanup(st, r.newBlob, staged), Resp("put", 500, NoVid, <<>>, r.body))
    IN  IF fault = "lock" \/ (fault = "idem" /\ r.idem # NoIdem) THEN failed(store, TRUE)
        ELSE IF hit # {} THEN
            \* idempotency hit: nothing is written; the staged copy is removed
            IF fault = "commit" THEN failed(store, TRUE)
            ELSE LET e == CHOOSE e \in hit : TRUE
                 IN  Outcome(versions, objs1, blobs, idem, PutCleanup(store, r.newBlob, TRUE),
                             FALSE, Resp("put", 200, e.vid, e.etag, r.body))
        ELSE IF fault = "find" THEN failed(StorageDelete(store, r.newBlob), TRUE)
        ELSE IF exist # {} THEN
            \* dedup hit: the staged copy is removed at once, the ready blob is used
            LET b   == CHOOSE b \in exist : TRUE
                st1 == StorageDelete(store, r.newBlob)
                vs1 == InsertObjectVersionTx(versions, r.key, verID, b.id, r.body)
                ob2 == SetHeadVersionTx(UpsertObjectTx(objs1, r.key, verID), r.key, verID)
                id1 == IF r.idem # NoIdem
                       THEN SaveIdempotencyTx(idem, r.key, r.idem, verID, etag) ELSE idem
            IN  IF fault \in {"version", "upsert", "head", "commit"} THEN failed(st1, FALSE)
                ELSE Outcome(vs1, ob2, blobs, id1, PutCleanup(st1, r.newBlob, FALSE),
                             TRUE, Resp("put", 200, verID, etag, r.body))
        ELSE IF fault = "reserve" \/ ~ ReserveBlobPendingOk(blobs, r.newBlob, checksum)
        THEN failed(StorageDelete(store, r.newBlob), TRUE)
        ELSE IF fault \in {"ready", "version", "upsert", "head", "commit"} THEN failed(store, TRUE)
        ELSE
            LET bl1 == MarkBlobReadyTx(ReserveBlobPendingTx(blobs, r.newBlob, checksum),
                                       r.newBlob)
                vs1 == InsertObjectVersionTx(versions, r.key, verID, r.newBlob, r.body)
                ob2 == SetHeadVersionTx(UpsertObjectTx(objs1, r.key, verID), r.key, verID)
                id1 == IF r.idem # NoIdem
                       THEN SaveIdempotencyTx(idem, r.key, r.idem, verID, etag) ELSE idem
            IN  Outcome(vs1, ob2, bl1, id1, store, TRUE, Resp("put", 200, verID, etag, r.body))

\* The blob cleanup both delete paths share (handleDelete 554-561,
\* deleteVersionsTx 144-151): on a zero count remove the bytes, then the record.
\* fault = "recdel": DeleteBlobRecordTx returns an error, which both callers drop.
\* fault = "kept": storage.Delete returns an error as well, dropped too.
BlobCleanup(vs, bl, st, blobID, fault) ==
    IF blobID # NoBlob /\ BlobRefCountFromVersionsTx(vs, blobID) = 0
    THEN [blobs |-> IF fault \in {"recdel", "kept"} THEN bl ELSE DeleteBlobRecordTx(bl, blobID),
          store |-> IF fault = "kept" THEN st ELSE StorageDelete(st, blobID)]
    ELSE [blobs |-> bl, store |-> st]

\* handleDelete, the transaction, for the request r: the set of its possible
\* results (GetPrevVersionTx may return any of the newest rows).
\* fault = "abort": the commit fails or the process stops before it.
handleDeleteTx(r, fault) ==
    LET objs1 == LockObjectForUpdate(objects, r.key)
        dm    == nextVid + 1
    IN  IF r.vid = NoVid THEN
            \* 1) no versionId: delete-marker
            IF fault = "abort" THEN {RolledBack(store, Resp("del", 500, NoVid, <<>>, ""))}
            ELSE {Outcome(CreateDeleteMarkerTx(versions, r.key, dm),
                          SetHeadVersionTx(objs1, r.key, dm),
                          blobs, idem, store, TRUE, Resp("del", 204, dm, <<>>, ""))}
        ELSE IF GetVersionTx(versions, r.vid) = {} THEN
            IF fault = "abort" THEN {RolledBack(store, Resp("del", 500, NoVid, <<>>, ""))}
            ELSE {Outcome(versions, objs1, blobs, idem, store, FALSE, Resp("del", 404, NoVid, <<>>, ""))}
        ELSE
            \* 2) versionId: delete that version, move the head, collect the blob
            LET ver   == CHOOSE v \in GetVersionTx(versions, r.vid) : TRUE
                vs1   == DeleteVersionTx(versions, r.vid)
                head  == GetHeadVersionTx(objs1, vs1, r.key)
                rehead == head = {} \/ (\E h \in head : h.vid = r.vid)
                prevs == GetPrevVersionTx(vs1, r.key, r.vid)
                moved == IF ~ rehead THEN {[vs |-> vs1, objs |-> objs1, used |-> FALSE]}
                         ELSE IF prevs # {}
                         THEN {[vs |-> vs1, objs |-> SetHeadVersionTx(objs1, r.key, pv.vid),
                                used |-> FALSE] : pv \in prevs}
                         ELSE {[vs |-> CreateDeleteMarkerTx(vs1, r.key, dm),
                                objs |-> SetHeadVersionTx(objs1, r.key, dm), used |-> TRUE]}
            IN  {LET cl == BlobCleanup(m.vs, blobs, store, ver.blob, fault)
                 IN  IF fault = "abort" THEN RolledBack(cl.store, Resp("del", 500, NoVid, <<>>, ""))
                     ELSE Outcome(m.vs, m.objs, cl.blobs, idem, cl.store, m.used,
                                  Resp("del", 204, r.vid, <<>>, ""))
                 : m \in moved}

\* handleGet on one state of the tables and the BlobStore: resolve the version
\* (by versionId, else the head), 404 when there is none or it is a
\* delete-marker, then the blob record and the bytes, 500 when either is missing.
GetResp(status, vid, bytes) == [status |-> status, vid |-> vid, bytes |-> bytes]

handleGet(objs, vs, bl, st, key, vid) ==
    LET ver == IF vid # NoVid THEN GetVersionTx(vs, vid) ELSE GetHeadVersionTx(objs, vs, key)
    IN  IF ver = {} \/ (\E v \in ver : v.isDelete) THEN GetResp(404, NoVid, "")
        ELSE LET v == CHOOSE v \in ver : TRUE
             IN  IF GetBlob(bl, v.blob) = {} \/ StorageRead(st, v.blob) = {}
                 THEN GetResp(500, NoVid, "")
                 ELSE GetResp(200, v.vid, CHOOSE b \in StorageRead(st, v.blob) : TRUE)

\* deleteVersionsTx, the transaction for one listed version c: the row is
\* deleted, its blob collected on a zero count; the head is not looked at
deleteVersionsTx(c, fault) ==
    LET objs1 == LockObjectForUpdate(objects, c.key)
        vs1   == DeleteVersionTx(versions, c.vid)
        cl    == BlobCleanup(vs1, blobs, store, c.blob, fault)
    IN  IF fault = "abort" THEN RolledBack(cl.store, NoResp)
        ELSE Outcome(vs1, objs1, cl.blobs, idem, cl.store, FALSE, NoResp)

\* a purge that does not look at the head
purgeWithoutHeadCheck(c) ==
    Outcome(DeleteVersionTx(versions, c.vid), LockObjectForUpdate(objects, c.key),
            blobs, idem, store, FALSE, NoResp)

\* purgeDeleteMarkersTx, the transaction for one listed delete-marker c: it is
\* deleted unless it is the head of its key
purgeDeleteMarkersTx(c) ==
    LET objs1 == LockObjectForUpdate(objects, c.key)
        head  == GetHeadVersionTx(objs1, versions, c.key)
    IN  IF head # {} /\ (\E h \in head : h.vid = c.vid)
        THEN Outcome(versions, objs1, blobs, idem, store, FALSE, NoResp)
        ELSE Outcome(DeleteVersionTx(versions, c.vid), objs1, blobs, idem, store, FALSE, NoResp)

\* expireCurrentTx, the transaction for one listed Object row c: a new
\* delete-marker becomes the head
expireCurrentTx(c) ==
    LET objs1 == LockObjectForUpdate(objects, c.key)
        dm    == nextVid + 1
    IN  Outcome(CreateDeleteMarkerTx(versions, c.key, dm), SetHeadVersionTx(objs1, c.key, dm),
                blobs, idem, store, TRUE, NoResp)

\* the tables and the BlobStore after a transaction with outcome o
Commit(o) ==
    /\ versions' = o.versions
    /\ objects' = o.objects
    /\ blobs' = o.blobs
    /\ idem' = o.idem
    /\ store' = o.store
    /\ nextVid' = IF o.usedVid THEN nextVid + 1 ELSE nextVid

\* a transaction may run when the version id it needs can still be generated
CanRun(o) == o.usedVid => nextVid < lim.vid

(* ------------------------------ handlers ------------------------------ *)
\* a write lock wrongly granted to everyone
LockGrantedAlways(w) == TRUE

\* The first UPDATE of a transaction needs the write lock of the database
\* file, which one connection holds at a time, until its commit or rollback.
LockFree(w) == w = NoProc

Free(p) == req[p].pc = "idle"
\* the handlers are goroutines running the same code: a request is taken by
\* the first one that is free
Accepts(p) == Free(p) /\ \A q \in Procs : q < p => ~Free(q)

\* handlePut up to the transaction: the body is streamed into the BlobStore
\* under a fresh blob id and committed there; the length and hash checks pass.
PutIngestBy(ownerID, p, key, body, tok) ==
    /\ Accepts(p)
    /\ nextBlob < lim.blob
    /\ buckets' = EnsureBucket(buckets, Bucket, ownerID)
    /\ nextBlob' = nextBlob + 1
    /\ last' = NoResp
    /\ store' = StorageCommit(store, nextBlob + 1, body)
    /\ req' = [req EXCEPT ![p] = [IdleReq EXCEPT !.pc = "ingested", !.op = "put",
                                   !.key = key, !.body = body, !.idem = tok,
                                   !.newBlob = nextBlob + 1, !.user = ownerID]]
    /\ UNCHANGED <<tables, writer, nextVid, now, get, workers, lim, lst, rg, policy, ws, au>>

\* handlePut of a request of the owner of the bucket
PutIngest(p, key, body, tok) == PutIngestBy(Owner, p, key, body, tok)

\* hex(sha256(body)), as the checksum has it
SumHex(body) == Checksum(body)[2]

\* r.ContentLength: -1 when the length is not known, else the declared length
ContentLengths == {-1, 1, 2}
\* the x-amz-content-sha256 header: absent, unsigned, or a concrete hex value
ContentSha256s == {"", "UNSIGNED-PAYLOAD"} \cup {SumHex(b) : b \in Bodies}

\* the validations of handlePut after the bytes are committed to the BlobStore
BadDigest(size, contentLength, want, sumHex) ==
    \/ (contentLength >= 0 /\ size # contentLength)
    \/ (want # "" /\ want # sumHex /\ want # "UNSIGNED-PAYLOAD")

\* handlePut that ends in BadDigest: EnsureBucket has run, the body is streamed
\* and committed under a fresh blob id, a validation fails, the bytes are
\* deleted again
PutBadDigest(p, key, body, contentLength, want) ==
    /\ Accepts(p)
    /\ nextBlob < lim.blob
    /\ BadDigest(Len(body), contentLength, want, SumHex(body))
    /\ buckets' = EnsureBucket(buckets, Bucket, Owner)
    /\ nextBlob' = nextBlob + 1
    /\ store' = StorageDelete(StorageCommit(store, nextBlob + 1, body), nextBlob + 1)
    /\ last' = Resp("put", 400, NoVid, <<>>, body)
    /\ UNCHANGED <<tables, writer, nextVid, now, req, get, workers, lim, lst, rg, policy, ws, au>>

\* the first statement of the transaction takes the write lock
PutLock(p) ==
    /\ req[p].pc = "ingested"
    /\ LockFree(writer)
    /\ CanRun(handlePutTx(req[p], "none"))
    /\ writer' = p
    /\ req' = [req EXCEPT ![p].pc = "locked"]
    /\ UNCHANGED <<tables, store, nextVid, nextBlob, now, last, get, workers, lim, buckets, lst, rg, policy, ws, au>>

PutTx(p) ==
    /\ req[p].pc = "locked" /\ req[p].op = "put"
    /\ LET o == handlePutTx(req[p], "none")
       IN  /\ Commit(o)
           /\ req' = [req EXCEPT ![p] = IdleReq]
           /\ last' = o.resp
    /\ writer' = NoProc
    /\ UNCHANGED <<nextBlob, now, get, workers, lim, buckets, lst, rg, policy, ws, au>>

\* handleDelete up to and including the lock; versionId is NoVid or any id
DeleteLock(p, key, vid) ==
    /\ Accepts(p)
    /\ BucketIDByName(buckets, Bucket, Owner) # {}
    /\ LockFree(writer)
    /\ LET r == [IdleReq EXCEPT !.pc = "locked", !.op = "del", !.key = key, !.vid = vid]
       IN  /\ \E o \in handleDeleteTx(r, "none") : CanRun(o)
           /\ req' = [req EXCEPT ![p] = r]
    /\ writer' = p
    /\ last' = NoResp
    /\ UNCHANGED <<tables, store, nextVid, nextBlob, now, get, workers, lim, buckets, lst, rg, policy, ws, au>>

DeleteTx(p) ==
    /\ req[p].pc = "locked" /\ req[p].op = "del"
    /\ \E o \in handleDeleteTx(req[p], "none") :
           /\ Commit(o)
           /\ req' = [req EXCEPT ![p] = IdleReq]
           /\ last' = o.resp
    /\ writer' = NoProc
    /\ UNCHANGED <<nextBlob, now, get, workers, lim, buckets, lst, rg, policy, ws, au>>

\* handleDeleteBucket on one state: the bucket rows it leaves and the status it
\* answers.  When the transaction returns no error the handler still falls
\* through to the InternalError response; the 204 after it is never written.
handleDeleteBucket(bk, objs, vs, name) ==
    IF BucketIDByName(bk, name, Owner) = {} THEN [buckets |-> bk, status |-> 404]
    ELSE IF DeleteBucketIfEmpty(objs, vs) = "ErrBucketNotEmpty"
    THEN [buckets |-> bk, status |-> 409]
    ELSE [buckets |-> {b \in bk : b.name # name}, status |-> 500]

\* DELETE /{bucket} by the owner, taken while no object request is between its
\* bucket lookup and the end of its transaction; the removal of the row needs
\* the write lock
DeleteBucket(p) ==
    /\ Accepts(p)
    /\ \A q \in Procs : Free(q)
    /\ LET o == handleDeleteBucket(buckets, objects, versions, Bucket)
       IN  /\ o.buckets # buckets => LockFree(writer)
           /\ buckets' = o.buckets
           /\ last' = Resp("delbucket", o.status, NoVid, <<>>, "")
    /\ UNCHANGED <<tables, store, writer, nextVid, nextBlob, now, req, get, workers, lim, lst, rg, policy, ws, au>>

\* PUT /{bucket}: handlePutBucket creates the bucket if it is not there
PutBucketBy(ownerID, p) ==
    /\ Accepts(p)
    /\ buckets' = EnsureBucket(buckets, Bucket, ownerID)
    /\ last' = Resp("putbucket", 200, NoVid, <<>>, "")
    /\ UNCHANGED <<tables, store, writer, nextVid, nextBlob, now, req, get, workers, lim, lst, rg, policy, ws, au>>

\* handlePutBucket of a request of the owner of the bucket
PutBucket(p) == PutBucketBy(Owner, p)

\* the answer of a GET that resolves to the version row v
AnswerFor(v) == IF v.isDelete THEN GetResp(404, NoVid, "") ELSE GetResp(200, v.vid, v.body)

\* the answers of an unversioned GET of key that are right in this state: 404
\* without a head, else the answer for the version of key the head names
RightAnswers(key) ==
    IF ~ objects[key].present \/ objects[key].head = NoVid THEN {GetResp(404, NoVid, "")}
    ELSE {AnswerFor(v) : v \in {u \in versions : u.vid = objects[key].head /\ u.key = key}}

GetEnds(g, resp) == [g EXCEPT !.pc = "done", !.resp = resp]

\* handleGet without versionId begins: BucketIDByName finds the bucket
GetBucket(key) ==
    /\ get.pc \in {"idle", "done"}
    /\ BucketIDByName(buckets, Bucket, Owner) # {}
    /\ get' = [IdleGet EXCEPT !.pc = "obj", !.key = key, !.since = nextVid,
                              !.first = RightAnswers(key)]
    /\ UNCHANGED <<tables, store, writer, nextVid, nextBlob, now, req, last, workers, lim, buckets, lst, rg, policy, ws, au>>

\* handleGet with versionId begins: BucketIDByName finds the bucket; the
\* version is then looked up by its id
GetVersion(key, vid) ==
    /\ get.pc \in {"idle", "done"}
    /\ vid # NoVid
    /\ BucketIDByName(buckets, Bucket, Owner) # {}
    /\ get' = [IdleGet EXCEPT !.pc = "ver", !.key = key, !.vid = vid, !.asked = vid,
                              !.since = nextVid]
    /\ UNCHANGED <<tables, store, writer, nextVid, nextBlob, now, req, last, workers, lim, buckets, lst, rg, policy, ws, au>>

\* first read of GetHeadVersionTx: the Object row
GetObjectRow ==
    /\ get.pc = "obj"
    /\ get' = IF objects[get.key].present
              THEN [get EXCEPT !.pc = "ver", !.vid = objects[get.key].head]
              ELSE GetEnds(get, GetResp(404, NoVid, ""))
    /\ UNCHANGED <<tables, store, writer, nextVid, nextBlob, now, req, last, workers, lim, buckets, lst, rg, policy, ws, au>>

\* second read of GetHeadVersionTx: the version row the head names
GetVersionRow ==
    /\ get.pc = "ver"
    /\ LET ver == GetVersionTx(versions, get.vid)
       IN  get' = IF ver = {} \/ (\E v \in ver : v.isDelete)
                  THEN GetEnds(get, GetResp(404, NoVid, ""))
                  ELSE [get EXCEPT !.pc = "blob", !.blob = (CHOOSE v \in ver : TRUE).blob]
    /\ UNCHANGED <<tables, store, writer, nextVid, nextBlob, now, req, last, workers, lim, buckets, lst, rg, policy, ws, au>>

\* GetBlob: the blob record of the version
GetBlobRecord ==
    /\ get.pc = "blob"
    /\ get' = IF GetBlob(blobs, get.blob) = {}
              THEN GetEnds(get, GetResp(500, NoVid, ""))
              ELSE [get EXCEPT !.pc = "read"]
    /\ UNCHANGED <<tables, store, writer, nextVid, nextBlob, now, req, last, workers, lim, buckets, lst, rg, policy, ws, au>>

\* ReadAt and the copy of the bytes into the response
GetBytes ==
    /\ get.pc = "read"
    /\ get' = IF StorageRead(store, get.blob) = {}
              THEN GetEnds(get, GetResp(500, NoVid, ""))
              ELSE GetEnds(get, GetResp(200, get.vid,
                                        CHOOSE b \in StorageRead(store, get.blob) : TRUE))
    /\ UNCHANGED <<tables, store, writer, nextVid, nextBlob, now, req, last, workers, lim, buckets, lst, rg, policy, ws, au>>

(* --------------------------- lifecycle worker ------------------------- *)
\* the rows as the worker keeps them
CandOfVersion(v) == [key |-> v.key, vid |-> v.vid, blob |-> v.blob, createdAt |-> v.createdAt]
CandOfObject(objs, k) == [key |-> k, vid |-> NoVid, blob |-> NoBlob, createdAt |-> objs[k].createdAt]

\* ORDER BY key of the keys, compared by their first character
KeyBefore(a, b) == a # b /\ (a = <<>> \/ (b # <<>> /\ a[1] < b[1]))

\* the listed rows that can be the next of the loop: the listings by age are
\* ORDER BY created_at ASC; keep-newest lists key by key, each key's rows by
\* created_at DESC, version_id DESC
NextCands(kind, cands) ==
    IF kind = "keep"
    THEN {c \in cands : \A d \in cands :
              \/ d = c
              \/ KeyBefore(c.key, d.key)
              \/ (c.key = d.key /\ (\/ d.createdAt < c.createdAt
                                    \/ (d.createdAt = c.createdAt /\ d.vid < c.vid)))}
    ELSE {c \in cands : \A d \in cands : c.createdAt <= d.createdAt}

\* the order of a listing: ORDER BY created_at ASC of the listings by age; of
\* keep-newest the keys in ORDER BY key, each key's rows by created_at DESC,
\* version_id DESC
RowBefore(kind, c, d) ==
    IF kind = "keep"
    THEN \/ KeyBefore(c.key, d.key)
         \/ (c.key = d.key /\ (\/ c.createdAt > d.createdAt
                               \/ (c.createdAt = d.createdAt /\ c.vid > d.vid)))
    ELSE c.createdAt < d.createdAt

\* LIMIT: the results a listing of at most limit rows can have
FirstRows(kind, cands, limit) ==
    {S \in SUBSET cands :
        /\ Cardinality(S) = IF Cardinality(cands) < limit THEN Cardinality(cands) ELSE limit
        /\ \A c \in S, d \in cands \ S : ~ RowBefore(kind, d, c)}

\* onePass, one listing of one rule: kind is the action of the rule, days its
\* age in ticks of the clock, keep its NoncurrentNewerVersionsToKeep.  The
\* cutoff of "expire" is computed from PurgeDeleteMarkersAfterDays, which days
\* stands for there.  A listing without rows starts no loop.
LcList(kind, prefix, days, keep) ==
    /\ lc.pc = "idle"
    /\ LET cut == now - days
           cs  == CASE kind = "age" ->
                         {CandOfVersion(v) : v \in ListNoncurrentByAge(versions, prefix, cut)}
                    [] kind = "keep" ->
                         {CandOfVersion(v) :
                              v \in ListNoncurrentKeepNewest(versions, objects, prefix, keep)}
                    [] kind = "purge" ->
                         {CandOfVersion(v) : v \in ListDeleteMarkersForPurge(versions, prefix, cut)}
                    [] kind = "expire" ->
                         {CandOfObject(objects, k) : k \in ListHeadsOlderThan(objects, prefix, cut)}
       IN  \E rows \in FirstRows(kind, cs, lim.batch) :
               /\ rows # {}
               /\ lc' = [IdleLc EXCEPT !.pc = "listed", !.kind = kind, !.prefix = prefix,
                                        !.days = days, !.keep = keep, !.cands = rows,
                                        !.heads = {objects[k].head : k \in Keys}]
    /\ UNCHANGED <<tables, store, writer, nextVid, nextBlob, now, req, last, get, gc, lim, buckets, lst, rg, policy, ws, au>>

\* a *AfterDays field of a rule that is nil
NoDays == -1

\* onePass, step 3 of a rule whose ExpireCurrentAfterDays is expireDays and
\* whose PurgeDeleteMarkersAfterDays is purgeDays: the cutoff is computed from
\* *rule.PurgeDeleteMarkersAfterDays.  When that pointer is nil the goroutine
\* of the worker panics and the process stops with it: the requests in flight
\* are gone, the pass has ended in the panic.
LcListExpire(prefix, expireDays, purgeDays) ==
    /\ lc.pc \in {"idle", "panicked"}
    /\ expireDays # NoDays /\ expireDays >= 0
    /\ IF purgeDays = NoDays
       THEN /\ lc' = [IdleLc EXCEPT !.pc = "panicked", !.kind = "expire",
                                     !.prefix = prefix, !.days = expireDays]
            /\ req' = [p \in Procs |-> IdleReq]
            /\ writer' = NoProc
            /\ last' = NoResp
            /\ get' = IdleGet
            /\ gc' = IdleGc
       ELSE /\ \E rows \in FirstRows("expire",
                                     {CandOfObject(objects, k) :
                                         k \in ListHeadsOlderThan(objects, prefix, now - purgeDays)},
                                     lim.batch) :
                   /\ rows # {}
                   /\ lc' = [IdleLc EXCEPT !.pc = "listed", !.kind = "expire",
                                            !.prefix = prefix, !.days = expireDays,
                                            !.cands = rows,
                                            !.heads = {objects[k].head : k \in Keys}]
            /\ UNCHANGED <<req, writer, last, get, gc, au>>
    /\ UNCHANGED <<tables, store, nextVid, nextBlob, now, lim, buckets, lst, rg, policy, ws, au>>

\* the loop takes the next row; its transaction begins with the lock
LcLock ==
    /\ lc.pc = "listed"
    /\ LockFree(writer)
    /\ lc.kind = "expire" => nextVid < lim.vid
    /\ \E c \in NextCands(lc.kind, lc.cands) :
           lc' = [lc EXCEPT !.pc = "locked", !.cur = c, !.cands = @ \ {c}]
    /\ writer' = LifecycleWorker
    /\ UNCHANGED <<tables, store, nextVid, nextBlob, now, req, last, get, gc, lim, buckets, lst, rg, policy, ws, au>>

lifecycleTx(kind, c, fault) ==
    CASE kind = "age" -> deleteVersionsTx(c, fault)
      [] kind = "keep" -> deleteVersionsTx(c, fault)
      [] kind = "purge" -> purgeDeleteMarkersTx(c)
      [] kind = "expire" -> expireCurrentTx(c)

LcTx ==
    /\ lc.pc = "locked"
    /\ Commit(lifecycleTx(lc.kind, lc.cur, "none"))
    /\ lc' = [lc EXCEPT !.pc = IF lc.cands = {} THEN "idle" ELSE "listed",
                         !.cur = NoCand, !.prev = lc.cur]
    /\ writer' = NoProc
    /\ UNCHANGED <<nextBlob, now, req, last, get, gc, lim, buckets, lst, rg, policy, ws, au>>

\* a transaction of the loop that returns an error (lock_fail,
\* delete_version_fail, dm_create_fail, set_head_fail): it is rolled back, the
\* error is dropped and the loop goes on with the next row
LcTxFails ==
    /\ lc.pc = "locked"
    /\ Commit(RolledBack(store, NoResp))
    /\ lc' = [lc EXCEPT !.pc = IF lc.cands = {} THEN "idle" ELSE "listed", !.cur = NoCand]
    /\ writer' = NoProc
    /\ UNCHANGED <<nextBlob, now, req, last, get, gc, lim, buckets, lst, rg, policy, ws, au>>

(* --------------------------- authentication -------------------------- *)
\* rows of users: the first and the third are active, the second is not
Users == {[id |-> 1, accessKeyID |-> "AK1", secret |-> "s1", active |-> TRUE],
          [id |-> 2, accessKeyID |-> "AK2", secret |-> "s2", active |-> FALSE],
          [id |-> 3, accessKeyID |-> "AK3", secret |-> "s3", active |-> TRUE]}

\* WHERE access_key_id = ? AND status = 'active'; the set is empty on ErrNotFound
FindUserByAccessKey(id) == {u \in Users : u.accessKeyID = id /\ u.active}

\* the chain of HMACs over the string to sign: it is the same for two
\* requests only when the secret and the canonical request are
hmacSHA256Hex(secret, content) == <<secret, content>>

\* VerifySigV4: the checks in their order.  LookupSecret sets err; at the
\* comparison of the signatures err is nil, and `return nil, err` returns it.
VerifySigV4(r) ==
    IF r.authz = "none" THEN [res |-> NoResult, err |-> "missing Authorization header"]
    ELSE IF r.authz # "aws4" THEN [res |-> NoResult, err |-> "unsupported algorithm"]
    ELSE IF r.malformed THEN [res |-> NoResult, err |-> "authorization header malformed"]
    ELSE IF r.scope # "ok" THEN [res |-> NoResult, err |-> "bad credential scope"]
    ELSE IF r.date = "none" THEN [res |-> NoResult, err |-> "missing x-amz-date"]
    ELSE IF r.date = "bad" THEN [res |-> NoResult, err |-> "bad x-amz-date"]
    ELSE IF r.date = "skewed" THEN [res |-> NoResult, err |-> "date skew too large"]
    ELSE IF FindUserByAccessKey(r.akid) = {} THEN [res |-> NoResult, err |-> "not found"]
    ELSE LET u   == CHOOSE u \in FindUserByAccessKey(r.akid) : TRUE
             err == NoErr
         IN  IF hmacSHA256Hex(u.secret, r.content) # r.sig
             THEN [res |-> NoResult, err |-> err]
             ELSE [res |-> [accessKeyID |-> r.akid], err |-> NoErr]

\* AuthMiddleware inside WithRecover, for the request r: an error of
\* VerifySigV4 is answered 403; res.AccessKeyID of a nil res panics, which
\* WithRecover answers 500; next is called when the user is found, and nothing
\* is written when it is not.
AuthMiddleware(r, allowNoSign) ==
    /\ LET v == VerifySigV4(r)
           a == [IdleAuth EXCEPT !.pc = "done", !.r = r, !.allowNoSign = allowNoSign]
       IN  au' = IF allowNoSign /\ r.authz = "none"
                 THEN [a EXCEPT !.dispatched = TRUE]
                 ELSE IF v.err # NoErr
                 THEN [a EXCEPT !.res = v.res, !.err = v.err, !.status = 403,
                                !.code = "SignatureDoesNotMatch"]
                 ELSE IF v.res = NoResult
                 THEN [a EXCEPT !.res = v.res, !.err = v.err, !.status = 500,
                                !.code = "InternalError"]
                 ELSE IF FindUserByAccessKey(v.res.accessKeyID) # {}
                 THEN [a EXCEPT !.res = v.res, !.err = v.err, !.dispatched = TRUE,
                                !.user = (CHOOSE u \in FindUserByAccessKey(v.res.accessKeyID) :
                                              TRUE).id]
                 ELSE [a EXCEPT !.res = v.res, !.err = v.err]
    /\ UNCHANGED <<tables, store, writer, nextVid, nextBlob, now, req, last, get, workers,
                   lim, buckets, lst, rg, policy, ws>>

(* ------------------------------ BlobGC worker ------------------------ *)
\* a pass begins: the candidates are read once; a pass without any ends at once
GcList ==
    /\ gc.pc = "idle"
    /\ BlobsForGCWithSize(blobs, versions) # {}
    /\ gc' = [IdleGc EXCEPT !.pc = "listed", !.cands = BlobsForGCWithSize(blobs, versions)]
    /\ UNCHANGED <<tables, store, writer, nextVid, nextBlob, now, req, last, get, lc, lim, buckets, lst, rg, policy, ws, au>>

\* a pass that ends with the candidate at hand
GcStop(g) == IdleGc
\* continue: the loop goes on with the candidates that are left
GcContinue(g) == IF g.cands = {} THEN IdleGc ELSE [g EXCEPT !.pc = "listed", !.cur = NoBlob]

\* storage.Delete of a candidate returns an error: its record is left alone
GcDeleteBytesFails ==
    /\ gc.pc = "listed"
    /\ \E id \in gc.cands : gc' = GcContinue([gc EXCEPT !.cands = @ \ {id}])
    /\ UNCHANGED <<tables, store, writer, nextVid, nextBlob, now, req, last, get, lc, lim, buckets,
                   lst, rg, policy, ws, au>>

\* DeleteBlobRecordTx of the candidate returns an error: the record stays
GcDeleteRecordFails ==
    /\ gc.pc = "bytes"
    /\ gc' = GcContinue(gc)
    /\ UNCHANGED <<tables, store, writer, nextVid, nextBlob, now, req, last, get, lc, lim, buckets,
                   lst, rg, policy, ws, au>>

\* the loop takes a candidate (the query gives no order) and removes its bytes
GcDeleteBytes ==
    /\ gc.pc = "listed"
    /\ \E id \in gc.cands :
           /\ store' = StorageDelete(store, id)
           /\ gc' = [gc EXCEPT !.pc = "bytes", !.cur = id, !.cands = @ \ {id}]
    /\ UNCHANGED <<tables, writer, nextVid, nextBlob, now, req, last, get, lc, lim, buckets, lst, rg, policy, ws, au>>

\* then its record, in a statement of its own, which waits for the write lock
GcDeleteRecord ==
    /\ gc.pc = "bytes"
    /\ LockFree(writer)
    /\ blobs' = DeleteBlobRecordTx(blobs, gc.cur)
    /\ gc' = GcContinue(gc)
    /\ UNCHANGED <<versions, objects, idem, store, writer, nextVid, nextBlob, now, req,
                   last, get, lc, lim, buckets, lst, rg, policy, ws, au>>

(* ----------------------------- ListObjectsV2 -------------------------- *)
\* the keys of the listings: sequences of the characters 1 ("/"), 2, 3
ListKeys == {<<2>>, <<2, 1>>, <<2, 1, 2>>, <<2, 1, 3>>, <<3>>, <<3, 1, 2>>, <<3, 1, 3>>}
\* the maxKeys of a request without a usable max-keys, and the greatest one
DefaultMaxKeys == 1000

\* objects.key > ?, ORDER BY objects.key ASC: byte order
KeyLess(a, b) ==
    \E i \in 1..Len(b) :
        /\ \A j \in 1..(i - 1) : j <= Len(a) /\ a[j] = b[j]
        /\ (i > Len(a) \/ a[i] < b[i])

RECURSIVE SortedKeys(_)
SortedKeys(S) ==
    IF S = {} THEN <<>>
    ELSE LET m == CHOOSE x \in S : \A y \in S : y = x \/ KeyLess(x, y)
         IN  <<m>> \o SortedKeys(S \ {m})

\* base64.RawURLEncoding of a key, and its decoding
EncodeToString(k) == [b64 |-> k]
DecodeString(t) == t.b64

\* strings.TrimPrefix
TrimPrefix(key, prefix) ==
    IF HasPrefix(key, prefix) THEN SubSeq(key, Len(prefix) + 1, Len(key)) ELSE key

\* strings.Index(rest, delimiter) >= 0
HasDelimiter(key, prefix, delim) ==
    delim # NoDelim /\ \E i \in 1..Len(TrimPrefix(key, prefix)) : TrimPrefix(key, prefix)[i] = delim

\* a common prefix cut before the delimiter
CommonPrefixShort(key, prefix, delim) ==
    LET rest == TrimPrefix(key, prefix)
        idx  == CHOOSE i \in 1..Len(rest) :
                    rest[i] = delim /\ \A j \in 1..(i - 1) : rest[j] # delim
    IN  prefix \o SubSeq(rest, 1, idx - 1)

\* cp := p.Prefix + rest[:idx+1]
CommonPrefixOf(key, prefix, delim) ==
    LET rest == TrimPrefix(key, prefix)
        idx  == CHOOSE i \in 1..Len(rest) :
                    rest[i] = delim /\ \A j \in 1..(i - 1) : rest[j] # delim
    IN  prefix \o SubSeq(rest, 1, idx)

\* a join that does not test is_delete
VisibleAnyHead(objs, vs, prefix, afterKey) ==
    {k \in DOMAIN objs :
        /\ objs[k].present
        /\ \E v \in vs : v.vid = objs[k].head
        /\ (prefix # <<>> => HasPrefix(k, prefix))
        /\ (afterKey # <<>> => KeyLess(afterKey, k))}

\* the rows of the query without LIMIT: the Object rows joined with the version
\* their head names, which is no delete-marker; under the prefix, after afterKey
VisibleKeys(objs, vs, prefix, afterKey) ==
    {k \in DOMAIN objs :
        /\ objs[k].present
        /\ \E v \in vs : v.vid = objs[k].head /\ ~ v.isDelete
        /\ (prefix # <<>> => HasPrefix(k, prefix))
        /\ (afterKey # <<>> => KeyLess(afterKey, k))}

ListObjectsV2(objs, vs, prefix, delim, maxKeysIn, startAfter, contToken) ==
    LET maxKeys  == IF maxKeysIn <= 0 \/ maxKeysIn > 1000 THEN 1000 ELSE maxKeysIn
        afterKey == IF contToken # NoToken THEN DecodeString(contToken) ELSE startAfter
        all      == SortedKeys(VisibleKeys(objs, vs, prefix, afterKey))
        rows     == SubSeq(all, 1, IF Len(all) < maxKeys + 1 THEN Len(all) ELSE maxKeys + 1)
        objects0 == SelectSeq(rows, LAMBDA k : ~ HasDelimiter(k, prefix, delim))
        prefixes == SortedKeys({CommonPrefixOf(rows[i], prefix, delim) :
                                   i \in {j \in 1..Len(rows) : HasDelimiter(rows[j], prefix, delim)}})
        trunc    == Len(rows) > maxKeys \/ Len(objects0) + Len(prefixes) > maxKeys
        trimTo   == IF maxKeys - Len(prefixes) < 0 THEN 0 ELSE maxKeys - Len(prefixes)
        objects1 == IF trunc /\ Len(objects0) > trimTo THEN SubSeq(objects0, 1, trimTo)
                    ELSE objects0
        lastKey  == IF Len(objects1) > 0 THEN objects1[Len(objects1)]
                    ELSE IF Len(prefixes) > 0 THEN prefixes[Len(prefixes)]
                    ELSE <<>>
    IN  [Objects |-> objects1, CommonPrefixes |-> prefixes, IsTruncated |-> trunc,
         NextToken |-> IF trunc THEN EncodeToString(lastKey) ELSE NoToken,
         KeyCount |-> Len(objects1) + Len(prefixes)]

\* handleListObjectsV2: max-keys is used when it is a number in 1..1000; a
\* continuation-token makes start-after empty
handleListObjectsV2(objs, vs, prefix, delim, maxKeysArg, startAfter, ct) ==
    ListObjectsV2(objs, vs, prefix, delim,
                  IF maxKeysArg > 0 /\ maxKeysArg <= 1000 THEN maxKeysArg ELSE DefaultMaxKeys,
                  IF ct # NoToken THEN <<>> ELSE startAfter, ct)

\* a client asks for the first page, without a continuation-token
ListFirstPage(prefix, delim, maxKeysArg, startAfter) ==
    /\ lst.pc = "idle"
    /\ BucketIDByName(buckets, Bucket, Owner) # {}
    /\ LET res == handleListObjectsV2(objects, versions, prefix, delim, maxKeysArg,
                                      startAfter, NoToken)
       IN  lst' = [pc |-> IF res.IsTruncated THEN "more" ELSE "done",
                   prefix |-> prefix, delim |-> delim, maxKeys |-> maxKeysArg,
                   startAfter |-> startAfter, token |-> res.NextToken,
                   keys |-> res.Objects, cps |-> res.CommonPrefixes, pages |-> 1,
                   ct |-> NoToken, page |-> res]
    /\ UNCHANGED <<tables, store, writer, nextVid, nextBlob, now, req, last, get, workers,
                   lim, buckets, rg, policy, ws, au>>

\* and for the next page, with the NextContinuationToken of the last one and
\* the start-after of the first request
ListNextPage ==
    /\ lst.pc = "more"
    /\ lst.pages < MaxPages
    /\ LET res == handleListObjectsV2(objects, versions, lst.prefix, lst.delim, lst.maxKeys,
                                      lst.startAfter, lst.token)
       IN  lst' = [lst EXCEPT !.pc = IF res.IsTruncated THEN "more" ELSE "done",
                              !.token = res.NextToken,
                              !.keys = @ \o res.Objects, !.cps = @ \o res.CommonPrefixes,
                              !.pages = @ + 1, !.ct = lst.token, !.page = res]
    /\ UNCHANGED <<tables, store, writer, nextVid, nextBlob, now, req, last, get, workers,
                   lim, buckets, rg, policy, ws, au>>

(* ---------------------------- write session -------------------------- *)
\* a Sync that puts nothing on the disk
SyncSkipped(f) == f
\* f.Sync(): what was written is on the disk
SyncFile(f) == [f EXCEPT !.durable = Len(f.data)]

\* what a stop of the machine may leave of a file: all that was on the disk
\* for certain, and any part of the rest
AfterStop(f) == {SubSeq(f.data, 1, n) : n \in f.durable..Len(f.data)}

\* BeginWrite: the temporary file final + ".tmp-" + ULID is created, empty
BeginWrite(body) ==
    /\ ws.pc \in {"idle", "done", "failed", "aborted", "stopped"}
    /\ nextBlob < lim.blob
    /\ nextBlob' = nextBlob + 1
    /\ ws' = [pc |-> "open", id |-> nextBlob + 1, body |-> body, tmp |-> NoFile,
              bodies |-> ws.bodies \cup {[id |-> nextBlob + 1, body |-> body]}]
    /\ UNCHANGED <<tables, store, writer, nextVid, now, req, last, get, workers, lim, buckets,
                   lst, rg, policy, au>>

\* Write: the next bytes go to the temporary file
SessionWrite ==
    /\ ws.pc = "open"
    /\ Len(ws.tmp.data) < Len(ws.body)
    /\ ws' = [ws EXCEPT !.tmp.data = Append(@, ws.body[Len(@) + 1])]
    /\ UNCHANGED <<tables, store, writer, nextVid, nextBlob, now, req, last, get, workers, lim,
                   buckets, lst, rg, policy, au>>

\* Commit, its first statement: f.Sync()
CommitSync ==
    /\ ws.pc = "open"
    /\ Len(ws.tmp.data) = Len(ws.body)
    /\ ws' = [ws EXCEPT !.pc = "synced", !.tmp = SyncFile(@)]
    /\ UNCHANGED <<tables, store, writer, nextVid, nextBlob, now, req, last, get, workers, lim,
                   buckets, lst, rg, policy, au>>

\* Commit: f.Close() and os.Rename(tmpPath, finalPath); the directory is not
\* synced (dir.Sync is called only when os.Open of the directory failed)
CommitRename ==
    /\ ws.pc = "synced"
    /\ store' = StorageCommit(store, ws.id, ws.tmp.data)
    /\ ws' = [ws EXCEPT !.pc = "done"]
    /\ UNCHANGED <<tables, writer, nextVid, nextBlob, now, req, last, get, workers, lim, buckets,
                   lst, rg, policy, au>>

\* Commit fails in Sync, Close or Rename: the temporary file is removed
CommitFails ==
    /\ ws.pc \in {"open", "synced"}
    /\ Len(ws.tmp.data) = Len(ws.body)
    /\ ws' = [ws EXCEPT !.pc = "failed", !.tmp = NoFile]
    /\ UNCHANGED <<tables, store, writer, nextVid, nextBlob, now, req, last, get, workers, lim,
                   buckets, lst, rg, policy, au>>

\* Abort: the temporary file is closed and removed
SessionAbort ==
    /\ ws.pc = "open"
    /\ ws' = [ws EXCEPT !.pc = "aborted", !.tmp = NoFile]
    /\ UNCHANGED <<tables, store, writer, nextVid, nextBlob, now, req, last, get, workers, lim,
                   buckets, lst, rg, policy, au>>

\* The machine stops.  During a session the temporary file stays under its
\* own name.  After the rename, which no directory sync made durable, the
\* final name may be lost, and the file holds what the disk had of it.
MachineStops ==
    /\ ws.pc \in {"open", "synced", "done"}
    /\ IF ws.pc = "done"
       THEN \/ store' = StorageDelete(store, ws.id)
            \/ \E bytes \in AfterStop(ws.tmp) :
                   store' = StorageCommit(StorageDelete(store, ws.id), ws.id, bytes)
       ELSE store' = store
    /\ ws' = [ws EXCEPT !.pc = "stopped"]
    /\ UNCHANGED <<tables, writer, nextVid, nextBlob, now, req, last, get, workers, lim, buckets,
                   lst, rg, policy, au>>

(* --------------------------- lifecycle policy ------------------------- *)
\* the handler of PUT ?lifecycle, as holder of the write lock
PolicyWriter == 9
\* a second bucket
OtherBucket == "c"

\* ruleFromXML: prefix from Filter, enabled from Status, the days of Expiration
ruleFromXML(bucketID, x) ==
    [bucket |-> bucketID, prefix |-> x.Prefix, enabled |-> x.Status = "Enabled",
     expireCurrent |-> x.Days]

\* tx.Create(&rule): a field with a default in its gorm tag is written with that
\* default when it holds its zero value; Enabled has default:true
CreateRule(row) ==
    [row EXCEPT !.enabled = IF row.enabled = FALSE THEN TRUE ELSE row.enabled]

\* tx.Where("bucket_id = ?", bucketID).Delete(&db.LifecycleRule{})
DeleteRules(rows, bucketID) == SelectSeq(rows, LAMBDA r : r.bucket # bucketID)

\* db.DB.Where("bucket_id = ?", bucketID).Find(&rules)
RulesOf(rows, bucketID) == SelectSeq(rows, LAMBDA r : r.bucket = bucketID)

\* ListEnabledLifecycleRules
ListEnabledLifecycleRules(rows) == SelectSeq(rows, LAMBDA r : r.enabled)

\* handlePutBucketLifecycle: the bucket is found, the body decoded to cfg, the
\* transaction begins and its DELETE takes the write lock
PolicyBegin(bucket, cfg) ==
    /\ pl.pc \in {"idle", "done"}
    /\ BucketIDByName(buckets, bucket, Owner) # {}
    /\ LockFree(writer)
    /\ writer' = PolicyWriter
    /\ pl' = [pc |-> "tx", bucket |-> bucket, cfg |-> cfg, written |-> <<>>, status |-> 0,
              before |-> rules]
    /\ UNCHANGED <<tables, store, nextVid, nextBlob, now, req, last, get, workers, lim, buckets,
                   lst, rg, ws, rules, rd, au>>

\* tx.Create of the next rule of cfg
PolicyCreate ==
    /\ pl.pc = "tx"
    /\ Len(pl.written) < Len(pl.cfg)
    /\ pl' = [pl EXCEPT !.written =
                  Append(@, CreateRule(ruleFromXML(pl.bucket, pl.cfg[Len(pl.written) + 1])))]
    /\ UNCHANGED <<tables, store, writer, nextVid, nextBlob, now, req, last, get, workers, lim,
                   buckets, lst, rg, ws, rules, rd, au>>

\* tx.Create returns an error: the transaction is rolled back, the answer is 500
PolicyCreateFails ==
    /\ pl.pc = "tx"
    /\ Len(pl.written) < Len(pl.cfg)
    /\ writer' = NoProc
    /\ pl' = [pl EXCEPT !.pc = "done", !.status = 500]
    /\ UNCHANGED <<tables, store, nextVid, nextBlob, now, req, last, get, workers, lim, buckets,
                   lst, rg, ws, rules, rd, au>>

\* the closure returned nil: commit, the answer is 200
PolicyCommit ==
    /\ pl.pc = "tx"
    /\ Len(pl.written) = Len(pl.cfg)
    /\ rules' = DeleteRules(rules, pl.bucket) \o pl.written
    /\ writer' = NoProc
    /\ pl' = [pl EXCEPT !.pc = "done", !.status = 200]
    /\ UNCHANGED <<tables, store, nextVid, nextBlob, now, req, last, get, workers, lim, buckets,
                   lst, rg, ws, rd, au>>

\* handleGetBucketLifecycle reads the rules of a bucket: one statement, it
\* sees the committed rows
PolicyRead(bucket) ==
    /\ BucketIDByName(buckets, bucket, Owner) # {}
    /\ rd' = [bucket |-> bucket, rows |-> RulesOf(rules, bucket)]
    /\ rd' # rd
    /\ UNCHANGED <<tables, store, writer, nextVid, nextBlob, now, req, last, get, workers, lim,
                   buckets, lst, rg, ws, rules, pl, au>>

(* ---------------------------- GET with Range -------------------------- *)
\* the characters of a range-spec: the digits 0, 1, 2, '-' and a letter
Dash == 10
Junk == 11
Digits == {0, 1, 2}
RangeChars == Digits \cup {Dash, Junk}

\* strings.IndexByte(spec, '-'), counted from 1; 0 when there is none
IndexByte(spec, c) ==
    IF \E i \in 1..Len(spec) : spec[i] = c
    THEN CHOOSE i \in 1..Len(spec) : spec[i] = c /\ \A j \in 1..(i - 1) : spec[j] # c
    ELSE 0

RECURSIVE Atoi(_)
Atoi(str) ==
    IF str = <<>> THEN 0 ELSE 10 * Atoi(SubSeq(str, 1, Len(str) - 1)) + str[Len(str)]

\* strconv.ParseInt(str, 10, 64) with the error dropped: 0 for "" and for a
\* string with a character that is no digit
ParseInt(str) ==
    IF str # <<>> /\ \A i \in 1..Len(str) : str[i] \in Digits THEN Atoi(str) ELSE 0

\* fs.ReadAt: Seek(off) when off > 0, LimitReader(n) when n >= 0
ReadAt(file, off, n) ==
    LET from == IF off > 0 THEN off ELSE 0
        upto == IF n >= 0 /\ from + n < Len(file) THEN from + n ELSE Len(file)
    IN  SubSeq(file, from + 1, upto)

RangeResp(status, cr, cl, body) ==
    [status |-> status, contentRange |-> cr, contentLength |-> cl, body |-> body]

\* handleGet from "// Range" on, for a found version: total is blobs.size, file
\* the bytes in the BlobStore
handleGetRange(total, file, bytes, spec) ==
    LET i  == IndexByte(spec, Dash)
        a  == IF i > 0 THEN SubSeq(spec, 1, i - 1) ELSE <<>>
        z  == IF i > 0 THEN SubSeq(spec, i + 1, Len(spec)) ELSE <<>>
        as == ParseInt(a)
        bs == ParseInt(z)
        zs == IF bs > total THEN total ELSE bs
        send(start, length, status, cr) ==
            RangeResp(status, cr, IF length >= 0 THEN length ELSE total,
                      ReadAt(file, start, length))
        no == RangeResp(416, NoContentRange, 0, <<>>)
    IN  IF ~ bytes THEN send(0, -1, 200, NoContentRange)
        ELSE IF a # <<>> /\ z # <<>>
        THEN IF as < 0 \/ bs < as \/ as >= total THEN no
             ELSE send(as, bs - as + 1, 206, <<as, bs, total>>)
        ELSE IF a # <<>> /\ z = <<>>
        THEN IF as < 0 \/ as >= total THEN no
             ELSE send(as, total - as, 206, <<as, total - 1, total>>)
        ELSE IF a = <<>> /\ z # <<>>
        THEN IF bs <= 0 THEN no
             ELSE send(total - zs, zs, 206, <<total - zs, total - 1, total>>)
        ELSE send(0, -1, 200, NoContentRange)

\* GET /b/k with a Range header, of the key whose head is a stored version
GetRange(key, bytes, spec) ==
    /\ rg.pc = "idle"
    /\ BucketIDByName(buckets, Bucket, Owner) # {}
    /\ \E v \in GetHeadVersionTx(objects, versions, key) :
           /\ ~ v.isDelete
           /\ GetBlob(blobs, v.blob) # {}
           /\ \E file \in StorageRead(store, v.blob) :
                  LET r == handleGetRange(Len(file), file, bytes, spec)
                  IN  rg' = [pc |-> "done", bytes |-> bytes, spec |-> spec,
                             status |-> r.status, contentRange |-> r.contentRange,
                             contentLength |-> r.contentLength, body |-> r.body]
    /\ UNCHANGED <<tables, store, writer, nextVid, nextBlob, now, req, last, get, workers,
                   lim, buckets, lst, policy, ws, au>>

(* -------------------------------- faults ------------------------------ *)
\* The DELETE transaction of handler p fails: "abort" - its commit fails or the
\* process stops before it, after the body ran; "recdel" - DeleteBlobRecordTx
\* returns an error, which the body drops.
DeleteTxFault(p, fault) ==
    /\ req[p].pc = "locked" /\ req[p].op = "del"
    /\ \E o \in handleDeleteTx(req[p], fault) :
           /\ Commit(o)
           /\ req' = [req EXCEPT ![p] = IdleReq]
           /\ last' = o.resp
    /\ writer' = NoProc
    /\ UNCHANGED <<nextBlob, now, get, workers, lim, buckets, lst, rg, policy, ws, au>>

\* The PUT transaction of handler p fails at the statement fault names, or at
\* its commit
PutTxFault(p, fault) ==
    /\ req[p].pc = "locked" /\ req[p].op = "put"
    /\ LET o == handlePutTx(req[p], fault)
       IN  /\ o.resp.status = 500
           /\ Commit(o)
           /\ req' = [req EXCEPT ![p] = IdleReq]
           /\ last' = o.resp
    /\ writer' = NoProc
    /\ UNCHANGED <<nextBlob, now, get, workers, lim, buckets, lst, rg, policy, ws, au>>

\* The process stops and is started again: the requests in flight and the
\* passes of the workers are gone, an open transaction is rolled back (the
\* write lock is free again); the tables and the files of the BlobStore stay.
Crash ==
    /\ \E p \in Procs : ~ Free(p)
    /\ req' = [p \in Procs |-> IdleReq]
    /\ writer' = NoProc
    /\ last' = NoResp
    /\ get' = IdleGet
    /\ lc' = IdleLc
    /\ gc' = IdleGc
    /\ UNCHANGED <<tables, store, nextVid, nextBlob, now, lim, buckets, lst, rg, policy, ws, au>>

\* time passes; the handlers read the clock only inside their transactions, so
\* a tick during a request is the same as one before it
Tick ==
    /\ now < lim.clock
    /\ \A p \in Procs : Free(p)
    /\ now' = now + 1
    /\ UNCHANGED <<tables, store, writer, nextVid, nextBlob, req, last, get, workers, lim, buckets, lst, rg, policy, ws, au>>

\* the state after construction and the creation of the bucket by its owner:
\* empty tables, empty BlobStore, n handlers
InitWith(l, n) ==
    /\ versions = {}
    /\ objects = [k \in Keys |-> NoRow]
    /\ blobs = {}
    /\ idem = {}
    /\ store = {}
    /\ writer = NoProc
    /\ nextVid = 0
    /\ nextBlob = 0
    /\ now = 0
    /\ req = [p \in 1..n |-> IdleReq]
    /\ last = NoResp
    /\ get = IdleGet
    /\ lc = IdleLc
    /\ gc = IdleGc
    /\ lim = l
    /\ buckets = EnsureBucket({}, Bucket, Owner)
    /\ lst = IdleList
    /\ rg = IdleRange
    /\ rules = <<>>
    /\ pl = IdlePolicy
    /\ rd = NoRead
    /\ ws = IdleSession
    /\ au = IdleAuth

AnyVid == {NoVid} \cup (1..lim.vid)

(* PUT and DELETE (both forms), one request at a time.  The clock stands
   still: all rows carry the same created_at, so that GetPrevVersionTx may
   return any remaining row of the key. *)
Init == InitWith([vid |-> MaxVid, blob |-> MaxBlob, clock |-> 0, batch |-> Batch], 1)

Next ==
    \/ \E p \in Procs, k \in Keys, b \in Bodies, t \in IdemKeys : PutIngest(p, k, b, t)
    \/ \E p \in Procs : PutLock(p)
    \/ \E p \in Procs : PutTx(p)
    \/ \E p \in Procs, k \in Keys, v \in AnyVid : DeleteLock(p, k, v)
    \/ \E p \in Procs : DeleteTx(p)

Spec == Init /\ [][Next]_vars

(* The versions of one key: PUT and DELETE (both forms) on a single key, with
   the clock, so that versions are made at the same and at different instants *)
OneKey == <<1>>

InitHead == InitWith([vid |-> MaxVid + 1, blob |-> MaxBlob, clock |-> MaxClock, batch |-> Batch], 1)

NextHead ==
    \/ \E p \in Procs : PutIngest(p, OneKey, "A", NoIdem)
    \/ \E p \in Procs : PutLock(p)
    \/ \E p \in Procs : PutTx(p)
    \/ \E p \in Procs, v \in AnyVid : DeleteLock(p, OneKey, v)
    \/ \E p \in Procs : DeleteTx(p)
    \/ Tick

SpecHead == InitHead /\ [][NextHead]_vars

(* PUT and DELETE without versionId, and a GET without versionId that reads
   while they run *)
InitGet == InitWith([vid |-> MaxVid, blob |-> MaxBlob, clock |-> 0, batch |-> Batch], 1)

NextGet ==
    \/ \E p \in Procs, k \in Keys, b \in Bodies, t \in IdemKeys : PutIngest(p, k, b, t)
    \/ \E p \in Procs : PutLock(p)
    \/ \E p \in Procs : PutTx(p)
    \/ \E p \in Procs, k \in Keys : DeleteLock(p, k, NoVid)
    \/ \E p \in Procs : DeleteTx(p)
    \/ \E k \in Keys : GetBucket(k)
    \/ GetObjectRow
    \/ GetVersionRow
    \/ GetBlobRecord
    \/ GetBytes

SpecGet == InitGet /\ [][NextGet]_vars

(* PUT, DELETE without versionId and the four actions of the lifecycle
   worker, with the clock *)
LcKinds == {"age", "keep", "purge", "expire"}
Prefixes == {<<>>, <<1>>}
Days == {0, 1}
Keeps == {0, 1}

InitLifecycle == InitWith([vid |-> MaxVid + 1, blob |-> MaxBlob, clock |-> MaxClock, batch |-> Batch], 1)

NextLifecycle ==
    \/ \E p \in Procs, k \in Keys : PutIngest(p, k, "A", NoIdem)
    \/ \E p \in Procs : PutLock(p)
    \/ \E p \in Procs : PutTx(p)
    \/ \E p \in Procs, k \in Keys : DeleteLock(p, k, NoVid)
    \/ \E p \in Procs : DeleteTx(p)
    \/ \E kind \in LcKinds, prefix \in Prefixes, days \in Days, keep \in Keeps :
           LcList(kind, prefix, days, keep)
    \/ LcLock
    \/ LcTx
    \/ Tick

SpecLifecycle == InitLifecycle /\ [][NextLifecycle]_vars

(* PUT of one body and DELETE with versionId, and BlobGC, where a DELETE
   transaction may fail *)
Faults == {"abort", "recdel"}

InitFaults == InitWith([vid |-> MaxVid + 1, blob |-> MaxBlob + 1, clock |-> 0, batch |-> Batch], 1)

NextFaults ==
    \/ \E p \in Procs, k \in Keys : PutIngest(p, k, "A", NoIdem)
    \/ \E p \in Procs : PutLock(p)
    \/ \E p \in Procs : PutTx(p)
    \/ \E p \in Procs, k \in Keys, v \in AnyVid \ {NoVid} : DeleteLock(p, k, v)
    \/ \E p \in Procs : DeleteTx(p)
    \/ \E p \in Procs, f \in Faults : DeleteTxFault(p, f)
    \/ GcList
    \/ GcDeleteBytes
    \/ GcDeleteRecord

SpecFaults == InitFaults /\ [][NextFaults]_vars

(* Two handlers and the lifecycle worker, all writers: PUT of one body and
   DELETE (both forms) on both keys, and the lifecycle rule that keeps no
   noncurrent version *)
InitLock == InitWith([vid |-> MaxVid, blob |-> MaxBlob, clock |-> 0, batch |-> Batch], 2)

NextLock ==
    \/ \E p \in Procs, k \in Keys : PutIngest(p, k, "A", NoIdem)
    \/ \E p \in Procs : PutLock(p)
    \/ \E p \in Procs : PutTx(p)
    \/ \E p \in Procs, k \in Keys, v \in AnyVid : DeleteLock(p, k, v)
    \/ \E p \in Procs : DeleteTx(p)
    \/ LcList("keep", <<>>, 0, 0)
    \/ LcLock
    \/ LcTx

SpecLock == InitLock /\ [][NextLock]_vars

(* PUT without token of two handlers at once, and DELETE without versionId *)
InitPut == InitWith([vid |-> MaxVid, blob |-> MaxBlob, clock |-> 0, batch |-> Batch], 2)

NextPut ==
    \/ \E p \in Procs, k \in Keys, b \in Bodies : PutIngest(p, k, b, NoIdem)
    \/ \E p \in Procs : PutLock(p)
    \/ \E p \in Procs : PutTx(p)
    \/ \E p \in Procs, k \in Keys : DeleteLock(p, k, NoVid)
    \/ \E p \in Procs : DeleteTx(p)

SpecPut == InitPut /\ [][NextPut]_vars

(* PUT and DELETE (both forms) of a handler, and the purge of delete-markers
   by the lifecycle worker, whose listing and transactions the requests run
   between; with the clock *)
InitPurge == InitWith([vid |-> MaxVid, blob |-> MaxBlob, clock |-> MaxClock, batch |-> Batch], 1)

NextPurge ==
    \/ \E p \in Procs, k \in Keys : PutIngest(p, k, "A", NoIdem)
    \/ \E p \in Procs : PutLock(p)
    \/ \E p \in Procs : PutTx(p)
    \/ \E p \in Procs, k \in Keys, v \in AnyVid : DeleteLock(p, k, v)
    \/ \E p \in Procs : DeleteTx(p)
    \/ \E prefix \in Prefixes, days \in Days : LcList("purge", prefix, days, 0)
    \/ LcLock
    \/ LcTx
    \/ Tick

SpecPurge == InitPurge /\ [][NextPurge]_vars

(* PUT and DELETE without versionId, and passes of a lifecycle worker with a
   small Batch that keep the newest noncurrent versions; no request runs while
   a pass does; with the clock *)
InitKeep == InitWith([vid |-> MaxVid + 1, blob |-> MaxBlob, clock |-> MaxClock,
                      batch |-> SmallBatch], 1)

NextKeep ==
    \/ lc.pc = "idle" /\ \E p \in Procs, k \in Keys : PutIngest(p, k, "A", NoIdem)
    \/ \E p \in Procs : PutLock(p)
    \/ \E p \in Procs : PutTx(p)
    \/ lc.pc = "idle" /\ \E p \in Procs, k \in Keys : DeleteLock(p, k, NoVid)
    \/ \E p \in Procs : DeleteTx(p)
    \/ /\ \A p \in Procs : Free(p)
       /\ \E prefix \in Prefixes, keep \in Keeps : LcList("keep", prefix, 0, keep)
    \/ LcLock
    \/ LcTx
    \/ Tick

SpecKeep == InitKeep /\ [][NextKeep]_vars

(* PUT with its declared length and hash, right or wrong, and the creation
   and deletion of the bucket *)
InitDigest == InitWith([vid |-> MaxVid, blob |-> MaxBlob + 1, clock |-> 0, batch |-> Batch], 1)

NextDigest ==
    \/ \E p \in Procs, k \in Keys, b \in Bodies : PutIngest(p, k, b, NoIdem)
    \/ \E p \in Procs : PutLock(p)
    \/ \E p \in Procs : PutTx(p)
    \/ \E p \in Procs, k \in Keys, b \in Bodies, n \in ContentLengths, w \in ContentSha256s :
           PutBadDigest(p, k, b, n, w)
    \/ \E p \in Procs : PutBucket(p)
    \/ \E p \in Procs : DeleteBucket(p)

SpecDigest == InitDigest /\ [][NextDigest]_vars

(* PUT with and without token whose transaction may fail at any statement, and
   DELETE without versionId *)
InitPutFaults == InitWith([vid |-> MaxVid, blob |-> MaxBlob + 1, clock |-> 0, batch |-> Batch], 1)

NextPutFaults ==
    \/ \E p \in Procs, k \in Keys, b \in Bodies, t \in IdemKeys : PutIngest(p, k, b, t)
    \/ \E p \in Procs : PutLock(p)
    \/ \E p \in Procs : PutTx(p)
    \/ \E p \in Procs, f \in PutFaults : PutTxFault(p, f)
    \/ \E p \in Procs, k \in Keys : DeleteLock(p, k, NoVid)
    \/ \E p \in Procs : DeleteTx(p)

SpecPutFaults == InitPutFaults /\ [][NextPutFaults]_vars

(* PUT, DELETE with versionId whose transaction may fail, a process that may
   stop during a request, and BlobGC, whose ticker starts a pass again and
   again and whose pass goes on once it has begun *)
InitCrash == InitWith([vid |-> MaxVid, blob |-> MaxBlob, clock |-> 0, batch |-> Batch], 1)

NextCrash ==
    \/ \E p \in Procs, k \in Keys : PutIngest(p, k, "A", NoIdem)
    \/ \E p \in Procs : PutLock(p)
    \/ \E p \in Procs : PutTx(p)
    \/ \E p \in Procs, k \in Keys, v \in AnyVid \ {NoVid} : DeleteLock(p, k, v)
    \/ \E p \in Procs : DeleteTx(p)
    \/ \E p \in Procs, f \in Faults : DeleteTxFault(p, f)
    \/ Crash
    \/ GcList
    \/ GcDeleteBytes
    \/ GcDeleteRecord

SpecCrash ==
    /\ InitCrash /\ [][NextCrash]_vars
    /\ WF_vars(GcList) /\ WF_vars(GcDeleteBytes) /\ WF_vars(GcDeleteRecord)

(* PUT, DELETE without versionId, and the expire-current step of the
   lifecycle worker for rules with and without PurgeDeleteMarkersAfterDays;
   with the clock *)
InitExpire == InitWith([vid |-> MaxVid + 1, blob |-> MaxBlob, clock |-> MaxClock,
                        batch |-> Batch], 1)

NextExpire ==
    \/ \E p \in Procs, k \in Keys : PutIngest(p, k, "A", NoIdem)
    \/ \E p \in Procs : PutLock(p)
    \/ \E p \in Procs : PutTx(p)
    \/ \E p \in Procs, k \in Keys : DeleteLock(p, k, NoVid)
    \/ \E p \in Procs : DeleteTx(p)
    \/ \E prefix \in Prefixes, c \in Days, pd \in Days \cup {NoDays} :
           LcListExpire(prefix, c, pd)
    \/ LcLock
    \/ LcTx
    \/ Tick

SpecExpire == InitExpire /\ [][NextExpire]_vars

(* ListObjectsV2 page after page over a bucket that does not change: any of
   the keys may have a version as head, one of them a delete-marker *)
VidOfKey(k) == CHOOSE i \in 1..Len(SortedKeys(ListKeys)) : SortedKeys(ListKeys)[i] = k

InitList ==
    /\ \E S \in SUBSET ListKeys, D \in SUBSET ListKeys :
           /\ D \subseteq S /\ Cardinality(D) <= 1
           /\ versions = {[vid |-> VidOfKey(k), key |-> k,
                           blob |-> IF k \in D THEN NoBlob ELSE 1,
                           isDelete |-> k \in D, createdAt |-> 0,
                           body |-> IF k \in D THEN "" ELSE "A"] : k \in S}
           /\ objects = [k \in ListKeys |->
                            IF k \in S THEN [present |-> TRUE, head |-> VidOfKey(k), createdAt |-> 0]
                            ELSE NoRow]
           /\ blobs = IF S \ D = {} THEN {}
                      ELSE {[id |-> 1, checksum |-> Checksum("A"), state |-> "ready"]}
           /\ store = IF S \ D = {} THEN {} ELSE {[id |-> 1, bytes |-> "A"]}
    /\ idem = {}
    /\ writer = NoProc
    /\ nextVid = Cardinality(ListKeys)
    /\ nextBlob = 1
    /\ now = 0
    /\ req = [p \in 1..1 |-> IdleReq]
    /\ last = NoResp
    /\ get = IdleGet
    /\ lc = IdleLc
    /\ gc = IdleGc
    /\ lim = [vid |-> Cardinality(ListKeys), blob |-> 1, clock |-> 0, batch |-> Batch]
    /\ buckets = EnsureBucket({}, Bucket, Owner)
    /\ lst = IdleList
    /\ rg = IdleRange
    /\ rules = <<>>
    /\ pl = IdlePolicy
    /\ rd = NoRead
    /\ ws = IdleSession
    /\ au = IdleAuth

Delimiters == {NoDelim, 1}
MaxKeysArgs == {0, 1, 2}
ListPrefixes == {<<>>, <<2>>, <<2, 1>>}
StartAfters == {<<>>, <<2, 1>>}

NextList ==
    \/ \E prefix \in ListPrefixes, delim \in Delimiters, n \in MaxKeysArgs, sa \in StartAfters :
           ListFirstPage(prefix, delim, n, sa)
    \/ ListNextPage

SpecList == InitList /\ [][NextList]_vars

(* The workers on rows that went away after they were listed: PUT and DELETE
   with versionId on one key, where the DELETE may fail to remove the blob
   record; the lifecycle rule that keeps no noncurrent version; BlobGC *)
InitStale == InitWith([vid |-> MaxVid + 1, blob |-> MaxBlob, clock |-> 0, batch |-> Batch], 1)

NextStale ==
    \/ \E p \in Procs, b \in Bodies : PutIngest(p, OneKey, b, NoIdem)
    \/ \E p \in Procs : PutLock(p)
    \/ \E p \in Procs : PutTx(p)
    \/ \E p \in Procs, v \in AnyVid \ {NoVid} : DeleteLock(p, OneKey, v)
    \/ \E p \in Procs : DeleteTx(p)
    \/ \E p \in Procs : DeleteTxFault(p, "recdel")
    \/ LcList("keep", <<>>, 0, 0)
    \/ LcLock
    \/ LcTx
    \/ GcList
    \/ GcDeleteBytes
    \/ GcDeleteRecord

SpecStale == InitStale /\ [][NextStale]_vars

(* BlobGC with failing deletions: PUT of both bodies, DELETE with versionId
   whose blob cleanup fails, so that blobs are left for BlobGC *)
InitGc == InitWith([vid |-> MaxVid + 1, blob |-> MaxBlob, clock |-> 0, batch |-> Batch], 1)

NextGc ==
    \/ \E p \in Procs, k \in Keys, b \in Bodies : PutIngest(p, k, b, NoIdem)
    \/ \E p \in Procs : PutLock(p)
    \/ \E p \in Procs : PutTx(p)
    \/ \E p \in Procs, k \in Keys, v \in AnyVid \ {NoVid} : DeleteLock(p, k, v)
    \/ \E p \in Procs : DeleteTx(p)
    \/ \E p \in Procs, f \in {"recdel", "kept"} : DeleteTxFault(p, f)
    \/ GcList
    \/ GcDeleteBytes
    \/ GcDeleteBytesFails
    \/ GcDeleteRecord
    \/ GcDeleteRecordFails

SpecGc == InitGc /\ [][NextGc]_vars

(* PUT ?lifecycle on two buckets, with failing inserts, and readers *)
XmlRule(status, prefix, days) == [Status |-> status, Prefix |-> prefix, Days |-> days]
XmlConfigs ==
    {<<>>,
     <<XmlRule("Enabled", <<>>, 0)>>,
     <<XmlRule("Disabled", <<1>>, NoDays)>>,
     <<XmlRule("Enabled", <<1>>, NoDays), XmlRule("Enabled", <<>>, 0)>>,
     <<XmlRule("Enabled", <<>>, 0), XmlRule("Disabled", <<>>, 0)>>}
PolicyBuckets == {Bucket, OtherBucket}

InitPolicy ==
    /\ versions = {}
    /\ objects = [k \in Keys |-> NoRow]
    /\ blobs = {}
    /\ idem = {}
    /\ store = {}
    /\ writer = NoProc
    /\ nextVid = 0
    /\ nextBlob = 0
    /\ now = 0
    /\ req = [p \in 1..1 |-> IdleReq]
    /\ last = NoResp
    /\ get = IdleGet
    /\ lc = IdleLc
    /\ gc = IdleGc
    /\ lim = [vid |-> 0, blob |-> 0, clock |-> 0, batch |-> Batch]
    /\ buckets = EnsureBucket(EnsureBucket({}, Bucket, Owner), OtherBucket, Owner)
    /\ lst = IdleList
    /\ rg = IdleRange
    /\ rules = <<>>
    /\ pl = IdlePolicy
    /\ rd = NoRead
    /\ ws = IdleSession
    /\ au = IdleAuth

NextPolicy ==
    \/ \E b \in PolicyBuckets, cfg \in XmlConfigs : PolicyBegin(b, cfg)
    \/ PolicyCreate
    \/ PolicyCreateFails
    \/ PolicyCommit
    \/ \E b \in PolicyBuckets : PolicyRead(b)

SpecPolicy == InitPolicy /\ [][NextPolicy]_vars

(* GET with a Range header of a key with one stored version: every body of
   up to MaxSize bytes, every range-spec of up to MaxSpecLen characters *)
RangeBodies == UNION {[1..n -> {"A", "B"}] : n \in 0..MaxSize}
RangeSpecs == UNION {[1..n -> RangeChars] : n \in 0..MaxSpecLen}
RangeKey == <<1>>

InitRange ==
    /\ \E file \in RangeBodies :
           /\ versions = {[vid |-> 1, key |-> RangeKey, blob |-> 1, isDelete |-> FALSE,
                           createdAt |-> 0, body |-> file]}
           /\ blobs = {[id |-> 1, checksum |-> Checksum(file), state |-> "ready"]}
           /\ store = {[id |-> 1, bytes |-> file]}
    /\ objects = [k \in Keys |-> IF k = RangeKey
                                 THEN [present |-> TRUE, head |-> 1, createdAt |-> 0]
                                 ELSE NoRow]
    /\ idem = {}
    /\ writer = NoProc
    /\ nextVid = 1
    /\ nextBlob = 1
    /\ now = 0
    /\ req = [p \in 1..1 |-> IdleReq]
    /\ last = NoResp
    /\ get = IdleGet
    /\ lc = IdleLc
    /\ gc = IdleGc
    /\ lim = [vid |-> 1, blob |-> 1, clock |-> 0, batch |-> Batch]
    /\ buckets = EnsureBucket({}, Bucket, Owner)
    /\ lst = IdleList
    /\ rg = IdleRange
    /\ rules = <<>>
    /\ pl = IdlePolicy
    /\ rd = NoRead
    /\ ws = IdleSession
    /\ au = IdleAuth

NextRange ==
    \E bytes \in BOOLEAN, spec \in RangeSpecs : GetRange(RangeKey, bytes, spec)

SpecRange == InitRange /\ [][NextRange]_vars

(* Write sessions of the BlobStore, one after another, with failing commits,
   aborts and stops of the machine *)
InitSession == InitWith([vid |-> 0, blob |-> MaxBlob, clock |-> 0, batch |-> Batch], 1)

NextSession ==
    \/ \E body \in RangeBodies : BeginWrite(body)
    \/ SessionWrite
    \/ CommitSync
    \/ CommitRename
    \/ CommitFails
    \/ SessionAbort
    \/ MachineStops

SpecSession == InitSession /\ [][NextSession]_vars

(* PUT, DELETE in both forms and the two noncurrent actions of the lifecycle
   worker, with the clock *)
InitNoncurrent == InitWith([vid |-> MaxVid + 1, blob |-> MaxBlob, clock |-> MaxClock, batch |-> Batch], 1)

NextNoncurrent ==
    \/ \E p \in Procs : PutIngest(p, OneKey, "A", NoIdem)
    \/ \E p \in Procs : PutLock(p)
    \/ \E p \in Procs : PutTx(p)
    \/ \E p \in Procs, v \in AnyVid : DeleteLock(p, OneKey, v)
    \/ \E p \in Procs : DeleteTx(p)
    \/ \E kind \in {"age", "keep"}, days \in Days, keep \in Keeps :
           LcList(kind, <<>>, days, keep)
    \/ LcLock
    \/ LcTx
    \/ Tick

SpecNoncurrent == InitNoncurrent /\ [][NextNoncurrent]_vars

(* PUT of both bodies, DELETE with versionId and the lifecycle rule that
   keeps no noncurrent version, without faults; the clock stands still *)
InitOrphan == InitWith([vid |-> MaxVid + 1, blob |-> MaxBlob + 1, clock |-> 0, batch |-> Batch], 1)

NextOrphan ==
    \/ \E p \in Procs, b \in Bodies : PutIngest(p, OneKey, b, NoIdem)
    \/ \E p \in Procs : PutLock(p)
    \/ \E p \in Procs : PutTx(p)
    \/ \E p \in Procs, v \in AnyVid \ {NoVid} : DeleteLock(p, OneKey, v)
    \/ \E p \in Procs : DeleteTx(p)
    \/ LcList("keep", <<>>, 0, 0)
    \/ LcLock
    \/ LcTx

SpecOrphan == InitOrphan /\ [][NextOrphan]_vars

(* PUT and one rule of the lifecycle worker with some of its thresholds set:
   the noncurrent-by-age step and the expire-current step, whose transactions
   may fail; with the clock *)
InitPass == InitWith([vid |-> MaxVid + 1, blob |-> MaxBlob, clock |-> MaxClock, batch |-> Batch], 1)

NextPass ==
    \/ \E p \in Procs, k \in Keys : PutIngest(p, k, "A", NoIdem)
    \/ \E p \in Procs : PutLock(p)
    \/ \E p \in Procs : PutTx(p)
    \/ \E days \in Days : LcList("age", <<>>, days, 0)
    \/ \E c \in Days, pd \in Days \cup {NoDays} : LcListExpire(<<>>, c, pd)
    \/ LcLock
    \/ LcTx
    \/ LcTxFails
    \/ Tick

SpecPass == InitPass /\ [][NextPass]_vars

(* One request of every shape through AuthMiddleware, with
   ALLOW_INSECURE_NOSIGN set or not *)
AccessKeys == {"AK1", "AK2", "AK3"}
Contents == {"c1", "c2"}
Requests ==
    [authz : {"none", "other", "aws4"}, malformed : BOOLEAN, scope : {"ok", "bad"},
     date : {"ok", "none", "bad", "skewed"}, akid : AccessKeys, content : Contents,
     sig : {"s1", "s2"} \X Contents]

InitAuth == InitWith([vid |-> MaxVid, blob |-> MaxBlob, clock |-> 0, batch |-> Batch], 1)

NextAuth ==
    \E r \in Requests, allowNoSign \in BOOLEAN :
        au.pc = "idle" /\ AuthMiddleware(r, allowNoSign)

SpecAuth == InitAuth /\ [][NextAuth]_vars

(* PUT, DELETE in both forms, and a first page of ListObjectsV2 without
   delimiter asked at any moment *)
InitLive == InitWith([vid |-> MaxVid + 1, blob |-> MaxBlob, clock |-> 0, batch |-> Batch], 1)

NextLive ==
    \/ \E p \in Procs, k \in Keys : PutIngest(p, k, "A", NoIdem)
    \/ \E p \in Procs : PutLock(p)
    \/ \E p \in Procs : PutTx(p)
    \/ \E p \in Procs, k \in Keys, v \in {NoVid} \cup {x.vid : x \in versions} :
           DeleteLock(p, k, v)
    \/ \E p \in Procs : DeleteTx(p)
    \/ \E prefix \in Prefixes, n \in {0, 1} : ListFirstPage(prefix, NoDelim, n, <<>>)

SpecLive == InitLive /\ [][NextLive]_vars

(* PUT, DELETE and GET on two keys, where a versionId may be the id of a
   version of the other key *)
InitForeign == InitWith([vid |-> MaxVid, blob |-> MaxBlob, clock |-> 0, batch |-> Batch], 1)

NextForeign ==
    \/ \E p \in Procs, k \in Keys : PutIngest(p, k, "A", NoIdem)
    \/ \E p \in Procs : PutLock(p)
    \/ \E p \in Procs : PutTx(p)
    \/ \E p \in Procs, k \in Keys, v \in AnyVid : DeleteLock(p, k, v)
    \/ \E p \in Procs : DeleteTx(p)
    \/ \E k \in Keys, v \in AnyVid : GetVersion(k, v)
    \/ GetVersionRow
    \/ GetBlobRecord
    \/ GetBytes

SpecForeign == InitForeign /\ [][NextForeign]_vars

(* PUTs, DELETEs and ticks of the clock, and then, with the clock fixed and no request
   any more, passes of the lifecycle worker over one rule with
   ExpireCurrentAfterDays and PurgeDeleteMarkersAfterDays set *)
InitFixpoint == InitWith([vid |-> MaxVid + 1, blob |-> MaxBlob, clock |-> MaxClock, batch |-> Batch], 1)

NextFixpoint ==
    \/ lc = IdleLc /\ \E p \in Procs, k \in Keys : PutIngest(p, k, "A", NoIdem)
    \/ \E p \in Procs : PutLock(p)
    \/ \E p \in Procs : PutTx(p)
    \/ lc = IdleLc /\ \E p \in Procs, k \in Keys : DeleteLock(p, k, NoVid)
    \/ \E p \in Procs : DeleteTx(p)
    \/ lc = IdleLc /\ Tick
    \/ (\A p \in Procs : Free(p)) /\ \E d \in Days : LcListExpire(<<>>, d, d)
    \/ (\A p \in Procs : Free(p)) /\ \E d \in Days : LcList("purge", <<>>, d, 0)
    \/ LcLock
    \/ LcTx

SpecFixpoint == InitFixpoint /\ [][NextFixpoint]_vars

(* PUT of objects and PUT of the bucket by the owner, by another user and by
   a request without signature; DELETE of versions and of the bucket by the
   owner *)
Callers == {NoUser} \cup {u.id : u \in {x \in Users : x.active}}

InitOwner == InitWith([vid |-> MaxVid, blob |-> MaxBlob, clock |-> 0, batch |-> Batch], 1)

NextOwner ==
    \/ \E u \in Callers, p \in Procs, k \in Keys : PutIngestBy(u, p, k, "A", NoIdem)
    \/ \E p \in Procs : PutLock(p)
    \/ \E p \in Procs : PutTx(p)
    \/ \E u \in Callers, p \in Procs : PutBucketBy(u, p)
    \/ \E p \in Procs, k \in Keys, v \in {x.vid : x \in versions} : DeleteLock(p, k, v)
    \/ \E p \in Procs : DeleteTx(p)
    \/ \E p \in Procs : DeleteBucket(p)

SpecOwner == InitOwner /\ [][NextOwner]_vars

(* GET in both forms of a key that has a version at every moment: PUTs, and
   DELETEs with versionId sent while the key has two versions, so that no
   delete-marker is made and the head is a non-delete version throughout *)
InitReadRace == InitWith([vid |-> MaxVid, blob |-> MaxBlob, clock |-> 0, batch |-> Batch], 1)

NextReadRace ==
    \/ \E p \in Procs, b \in Bodies : PutIngest(p, OneKey, b, NoIdem)
    \/ \E p \in Procs : PutLock(p)
    \/ \E p \in Procs : PutTx(p)
    \/ Cardinality(versions) >= 2
           /\ \E p \in Procs, v \in {x.vid : x \in versions} : DeleteLock(p, OneKey, v)
    \/ \E p \in Procs : DeleteTx(p)
    \/ versions # {} /\ GetBucket(OneKey)
    \/ \E v \in {x.vid : x \in versions} : GetVersion(OneKey, v)
    \/ GetObjectRow
    \/ GetVersionRow
    \/ GetBlobRecord
    \/ GetBytes

SpecReadRace == InitReadRace /\ [][NextReadRace]_vars

(* Creation and deletion of the bucket, between PUT and DELETE (both forms)
   of its objects *)
InitBucket == InitWith([vid |-> MaxVid, blob |-> MaxBlob, clock |-> 0, batch |-> Batch], 1)

NextBucket ==
    \/ \E p \in Procs, k \in Keys, b \in Bodies : PutIngest(p, k, b, NoIdem)
    \/ \E p \in Procs : PutLock(p)
    \/ \E p \in Procs : PutTx(p)
    \/ \E p \in Procs, k \in Keys, v \in AnyVid : DeleteLock(p, k, v)
    \/ \E p \in Procs : DeleteTx(p)
    \/ \E p \in Procs : PutBucket(p)
    \/ \E p \in Procs : DeleteBucket(p)

SpecBucket == InitBucket /\ [][NextBucket]_vars

(* ------------------------------ properties ---------------------------- *)
\* the step in which handler p ends a PUT transaction / a DELETE transaction
PutEnds(p) == req[p].pc = "locked" /\ req[p].op = "put" /\ req'[p].pc = "idle"
DeleteEnds(p) == req[p].pc = "locked" /\ req[p].op = "del" /\ req'[p].pc = "idle"

\* C2: every Object row whose head_version_id is set names a version row that
\* exists and belongs to the row's key.  (The claim asks this of every Object
\* row; a row whose head was never set is left aside here, so that what fails
\* is a head naming a version that is gone.)
HeadNamesVersionOfKey ==
    \A k \in Keys :
        (objects[k].present /\ objects[k].head # NoVid)
            => \E v \in versions : v.vid = objects[k].head /\ v.key = k

\* C3: a successful PUT carrying (key, idem_key) for which no record exists
\* inserts exactly one version, the one it returns, and records (version, etag);
\* a PUT carrying a triple that has a record returns the recorded version id
\* and etag, inserts no version, moves no head, writes no blob record and leaves
\* the idempotency records as they are, whatever its body is.  Records are
\* never changed or removed, and there is at most one per triple.
IdempotentPut ==
    [][/\ idem \subseteq idem'
       /\ \A e1, e2 \in idem' : (e1.key = e2.key /\ e1.idemKey = e2.idemKey) => e1 = e2
       /\ \A p \in Procs :
            (PutEnds(p) /\ req[p].idem # NoIdem /\ last'.status = 200) =>
                LET recs == {e \in idem : e.key = req[p].key /\ e.idemKey = req[p].idem}
                IN  IF recs # {}
                    THEN /\ versions' = versions
                         /\ \A k \in Keys : objects'[k].head = objects[k].head
                         /\ blobs' = blobs
                         /\ idem' = idem
                         /\ \E e \in recs : last'.vid = e.vid /\ last'.etag = e.etag
                    ELSE /\ \E n \in versions' :
                              /\ versions' = versions \cup {n}
                              /\ \A v \in versions : v.vid # n.vid
                              /\ n.key = req[p].key /\ ~ n.isDelete
                              /\ n.vid = last'.vid
                         /\ last'.etag = ETag(req[p].body)
                         /\ idem' = idem \cup {[key |-> req[p].key, idemKey |-> req[p].idem,
                                                vid |-> last'.vid, etag |-> last'.etag]}
      ]_vars

\* C3, its case: a PUT has just been answered with a recorded version whose
\* bytes are not the bytes it carried
ReplayedWithOtherBody ==
    /\ last.op = "put" /\ last.status = 200
    /\ \E e \in idem, v \in versions :
           e.vid = last.vid /\ v.vid = e.vid /\ v.body # last.body

\* C4: a successful PUT without token of bytes that an existing version was
\* made from inserts one version with a new id whose blob is the blob of that
\* version; it adds no blob record, and the only stored file with these bytes
\* that no request in flight owns is that blob's.
DedupOnIdenticalBytes ==
    [][\A p \in Procs :
          (/\ PutEnds(p) /\ req[p].idem = NoIdem
           /\ \E v \in versions : ~ v.isDelete /\ v.body = req[p].body)
          => \E n \in versions' :
                /\ versions' = versions \cup {n}
                /\ \A v \in versions : v.vid # n.vid
                /\ last'.status = 200 /\ last'.vid = n.vid
                /\ \A v \in versions : (~ v.isDelete /\ v.body = req[p].body) => n.blob = v.blob
                /\ blobs' = blobs
                /\ {b.id : b \in {c \in blobs' : c.checksum = Checksum(req[p].body)}} = {n.blob}
                /\ {f.id : f \in {g \in store' : g.bytes = req[p].body}}
                       \ {req'[q].newBlob : q \in Procs} = {n.blob}
      ]_vars

\* C4, its case: the PUT just answered made a version of one key that shares
\* its blob with a version of another key
TwoVersionsOneBlob ==
    /\ last.op = "put" /\ last.status = 200
    /\ \E v1, v2 \in versions :
           /\ v2.vid = last.vid /\ v1.vid # v2.vid /\ v1.key # v2.key
           /\ ~ v1.isDelete /\ v1.blob = v2.blob

\* the ready blob records with the checksum of body
ReadyFor(bl, body) == {b \in bl : b.state = "ready" /\ b.checksum = Checksum(body)}

\* C5: there is at most one ready Blob record per checksum, and right after a
\* successful PUT of body B that inserted a version (a PUT that is not an
\* idempotent replay) there is exactly one ready Blob record with the checksum
\* of B, and the new version references it.
OneReadyBlobPerChecksum ==
    [][/\ \A b1, b2 \in blobs' :
            (b1.state = "ready" /\ b2.state = "ready" /\ b1.checksum = b2.checksum) => b1 = b2
       /\ \A p \in Procs :
            (PutEnds(p) /\ last'.status = 200 /\ versions' # versions) =>
                /\ Cardinality(ReadyFor(blobs', req[p].body)) = 1
                /\ \E n \in versions' \ versions, b \in ReadyFor(blobs', req[p].body) :
                       n.vid = last'.vid /\ n.blob = b.id
      ]_vars

\* C5, its case: the PUT just answered made a version, and other content has
\* its ready blob too
PutMadeVersion ==
    /\ last.op = "put" /\ last.status = 200
    /\ \E v \in versions : v.vid = last.vid /\ v.body = last.body /\ ReadyFor(blobs, v.body) # {}
    /\ \E b \in blobs : b.state = "ready" /\ b.checksum # Checksum(last.body)

\* C5 as stated: at most one ready Blob record per checksum, and right after
\* any successful PUT of body B exactly one ready Blob record has the checksum
\* of B and the version the PUT returned references it.
OneReadyBlobAfterAnyPut ==
    /\ \A b1, b2 \in blobs :
            (b1.state = "ready" /\ b2.state = "ready" /\ b1.checksum = b2.checksum) => b1 = b2
    /\ (last.op = "put" /\ last.status = 200) =>
            /\ Cardinality(ReadyFor(blobs, last.body)) = 1
            /\ \E v \in versions, b \in ReadyFor(blobs, last.body) :
                   v.vid = last.vid /\ v.blob = b.id

\* C7: a DELETE without versionId on key k inserts exactly one row, a
\* delete-marker of k with a new id, makes it k's head and returns it with 204;
\* it removes no version row, no blob record and no stored bytes; after it a
\* GET of k without versionId is answered 404, and a GET with the versionId of
\* any non-delete version k had is answered with that version's bytes.
SoftDeleteInsertsMarker ==
    [][\A p \in Procs :
          (DeleteEnds(p) /\ req[p].vid = NoVid) =>
              LET k == req[p].key
              IN  /\ \E dm \in versions' :
                        /\ versions' = versions \cup {dm}
                        /\ \A v \in versions : v.vid # dm.vid
                        /\ dm.isDelete /\ dm.key = k
                        /\ objects'[k].present /\ objects'[k].head = dm.vid
                        /\ last'.status = 204 /\ last'.vid = dm.vid
                  /\ blobs' = blobs /\ store' = store
                  /\ handleGet(objects', versions', blobs', store', k, NoVid).status = 404
                  /\ \A v \in versions :
                        (v.key = k /\ ~ v.isDelete) =>
                            handleGet(objects', versions', blobs', store', k, v.vid)
                                = GetResp(200, v.vid, v.body)
      ]_vars

\* C7, its case: the DELETE just answered put a delete-marker over a key that
\* has a non-delete version
MarkerOverVersion ==
    /\ last.op = "del" /\ last.status = 204
    /\ \E dm, v \in versions :
           /\ dm.vid = last.vid /\ dm.isDelete /\ objects[dm.key].head = dm.vid
           /\ v.key = dm.key /\ ~ v.isDelete

\* C8: after a DELETE with versionId = V on key k that found V: if V was k's
\* head, the head is the greatest remaining version of k in the order
\* (created_at, version_id), or a delete-marker inserted by this DELETE when no
\* version of k remains; if V was not the head, the head is unchanged.
HeadMovesToGreatestRemaining ==
    [][\A p \in Procs :
          (DeleteEnds(p) /\ req[p].vid # NoVid /\ last'.status = 204) =>
              LET k    == req[p].key
                  V    == req[p].vid
                  rest == {v \in versions : v.key = k /\ v.vid # V}
                  greatest == {v \in rest : \A u \in rest :
                                   \/ u.createdAt < v.createdAt
                                   \/ (u.createdAt = v.createdAt /\ u.vid <= v.vid)}
              IN  IF objects[k].present /\ objects[k].head = V
                  THEN IF rest # {}
                       THEN \E g \in greatest : objects'[k].head = g.vid
                       ELSE \E dm \in versions' \ versions :
                                dm.isDelete /\ dm.key = k /\ objects'[k].head = dm.vid
                  ELSE objects'[k].head = objects[k].head
      ]_vars

\* C6: for every PUT of body B that made a version V, a GET with versionId = V
\* (under any key) is answered 200 with exactly B, whatever PUTs and DELETEs
\* without versionId, of this or of other keys, came later; a PUT that is an
\* idempotent replay makes no version, and the version it returns keeps the
\* bytes of the PUT that made it.
RoundTripOfMadeVersions ==
    \A v \in versions, k \in Keys :
        ~ v.isDelete =>
            handleGet(objects, versions, blobs, store, k, v.vid) = GetResp(200, v.vid, v.body)

\* C6, its case: a version made by a PUT is no longer the head of its key (a
\* later PUT or delete-marker is), and another version shares its blob
VersionSuperseded ==
    \E v, w \in versions :
        /\ ~ v.isDelete /\ w.vid > v.vid /\ w.key = v.key /\ objects[v.key].head = w.vid
        /\ \E u \in versions : u.vid # v.vid /\ u.blob = v.blob

\* C6 as stated: after a successful PUT with body B that returned version id V,
\* a GET with versionId = V is answered with exactly B.
RoundTripOfAnyPut ==
    (last.op = "put" /\ last.status = 200) =>
        handleGet(objects, versions, blobs, store, OneKey, last.vid)
            = GetResp(200, last.vid, last.body)

\* C10: a GET without versionId of key k that ran while PUTs and DELETEs
\* without versionId committed is answered with what was right when it began
\* (404 without a head, 404 for a delete-marker head, else the id and the bytes
\* of the head version) or with the answer for a version of k made since:
\* never 404 for a head whose version row it did not find, never one version's
\* id with other bytes, never an error.
GetSeesPriorOrNewHead ==
    get.pc = "done" =>
        get.resp \in get.first
            \cup {AnswerFor(v) : v \in {u \in versions : u.key = get.key /\ u.vid > get.since}}

\* C10, its case: a GET that began under one head was answered with a version
\* made while it ran
GetAnsweredWithNewVersion ==
    /\ get.pc = "done" /\ get.resp.status = 200
    /\ get.resp.vid > get.since
    /\ \E r \in get.first : r.status = 200 /\ r.vid # get.resp.vid

\* C1: neither the Blob record nor the stored bytes of a blob are removed in a
\* step after which a non-delete version references the blob.
BlobKeptWhileReferenced ==
    [][\A x \in 1..lim.blob :
          (\/ (\E b \in blobs : b.id = x) /\ ~ (\E b \in blobs' : b.id = x)
           \/ (\E f \in store : f.id = x) /\ ~ (\E f \in store' : f.id = x))
          => ~ \E v \in versions' : ~ v.isDelete /\ v.blob = x
      ]_vars

\* C9: no two writers are at the same time past LockObjectForUpdate and before
\* the end of their transaction on the same key, be they PUT or DELETE
\* handlers or the lifecycle worker.
OneWriterPerKey ==
    /\ \A p, q \in Procs :
           (p # q /\ req[p].pc = "locked" /\ req[q].pc = "locked") => req[p].key # req[q].key
    /\ \A p \in Procs :
           (req[p].pc = "locked" /\ lc.pc = "locked") => req[p].key # lc.cur.key

\* C9, its case: one writer holds the lock of a key while a PUT of the same key
\* has its bytes stored and waits to enter its transaction
WriterWaitsForKey ==
    \E p, q \in Procs :
        /\ p # q /\ req[p].pc = "ingested" /\ req[p].key = req[q].key
        /\ req[q].pc = "locked" /\ writer = q

\* C11: a DELETE of the bucket by its owner, the bucket being there, is
\* answered 204 and removes the bucket when the bucket has no Object row and no
\* version row, and is answered 409 and keeps the bucket otherwise.
BucketDeleteAnswers ==
    [][(/\ last'.op = "delbucket" /\ last' # last
        /\ BucketIDByName(buckets, Bucket, Owner) # {})
       => IF (\A k \in Keys : ~ objects[k].present) /\ versions = {}
          THEN last'.status = 204 /\ buckets' = {b \in buckets : b.name # Bucket}
          ELSE last'.status = 409 /\ buckets' = buckets
      ]_vars

\* C12: a purge transaction of the lifecycle worker removes no version that is
\* the head of its key when the transaction runs: a listed delete-marker that
\* is the head then is left in place, whatever it was when it was listed, and
\* one that is not the head then is deleted.
PurgeSparesHead ==
    [][(lc.pc = "locked" /\ lc.kind = "purge" /\ lc'.pc # "locked") =>
          LET c      == lc.cur
              isHead == \E v \in versions : /\ v.vid = c.vid
                                            /\ objects[c.key].present
                                            /\ objects[c.key].head = v.vid
          IN  /\ \A v \in versions \ versions' :
                     ~ (objects[v.key].present /\ objects[v.key].head = v.vid)
              /\ isHead => versions' = versions
              /\ ~ isHead => versions' = {v \in versions : v.vid # c.vid}
              /\ \A k \in Keys : objects'[k].head = objects[k].head
      ]_vars

\* C12, its case: the last purge transaction was for a delete-marker that was
\* not a head when the list was taken; it is the head of its key and is there
PurgeSkippedNewHead ==
    /\ lc.kind = "purge" /\ lc.prev # NoCand
    /\ lc.prev.vid \notin lc.heads
    /\ \E v \in versions :
           v.vid = lc.prev.vid /\ v.isDelete /\ objects[v.key].head = v.vid

\* C13: a keep-newest transaction deletes only a non-delete version that is
\* not the head and has at least K newer noncurrent versions of its key in the
\* order (created_at, version_id); and when a pass with keep = K ends, every
\* key under the prefix of the rule has at most K non-delete versions that are
\* not its head.
KeepNewestLeavesK ==
    [][(lc.pc = "locked" /\ lc.kind = "keep" /\ lc'.pc # "locked") =>
          LET nc(vs, objs, k) == {v \in vs : v.key = k /\ ~ v.isDelete /\ v.vid # objs[k].head}
              newer(v) == {u \in nc(versions, objects, v.key) :
                              \/ u.createdAt > v.createdAt
                              \/ (u.createdAt = v.createdAt /\ u.vid > v.vid)}
          IN  /\ \A v \in versions \ versions' :
                     v \in nc(versions, objects, v.key) /\ Cardinality(newer(v)) >= lc.keep
              /\ lc'.pc = "idle" =>
                     \A k \in Keys : HasPrefix(k, lc.prefix) =>
                         Cardinality(nc(versions', objects', k)) <= lc.keep
      ]_vars

\* C14: a PUT answered BadDigest leaves no stored bytes under the blob id it
\* wrote, and leaves the buckets, the Object rows, the versions, the blob
\* records and the idempotency records as they were before the request.
BadDigestChangesNothing ==
    [][(last'.op = "put" /\ last'.status = 400 /\ nextBlob' # nextBlob) =>
          /\ ~ \E f \in store' : f.id = nextBlob'
          /\ store' = store
          /\ tables' = tables
          /\ buckets' = buckets
      ]_vars

\* C15: when the PUT transaction fails, at whatever statement, the answer is
\* InternalError, the versions, the Object rows, the blob records and the
\* idempotency records are as before the request, the bytes written under the
\* new blob id are gone, and every other stored file is kept, the file of the
\* ready blob with the checksum of the body among them.
FailedPutLeavesNothing ==
    [][\A p \in Procs :
          (PutEnds(p) /\ last'.status # 200) =>
              /\ last'.status = 500
              /\ tables' = tables
              /\ ~ \E f \in store' : f.id = req[p].newBlob
              /\ store' = {f \in store : f.id # req[p].newBlob}
              /\ \A b \in blobs :
                     (b.state = "ready" /\ b.checksum = Checksum(req[p].body)) =>
                         b \in blobs' /\ StorageRead(store', b.id) = StorageRead(store, b.id)
      ]_vars

\* C15, its case: the PUT just answered failed, and the ready blob it would
\* have been deduplicated onto has its record, its bytes and its version
FailedPutBesideDedupBlob ==
    /\ last.op = "put" /\ last.status = 500
    /\ \E b \in blobs, v \in versions :
           /\ b.state = "ready" /\ b.checksum = Checksum(last.body)
           /\ v.blob = b.id /\ ~ v.isDelete
           /\ StorageRead(store, b.id) = {last.body}
    /\ \A f \in store : \E b \in blobs : b.id = f.id

\* C16: stored bytes that no blob record names and no request in flight has
\* written (what a process that stopped between BlobStore.Commit and the commit
\* of the transaction leaves) are removed in the end, BlobGC passes being run
\* again and again.
OrphanBytesReclaimed ==
    \A x \in 1..MaxBlob :
        [](( /\ \E f \in store : f.id = x
             /\ ~ \E b \in blobs : b.id = x
             /\ \A p \in Procs : req[p].newBlob # x )
           => <>(~ \E f \in store : f.id = x))

\* C17: the expire-current step of a rule with ExpireCurrentAfterDays = C,
\* whatever its PurgeDeleteMarkersAfterDays is, does not end the pass in a
\* panic; what it lists are the keys under the prefix whose head version is
\* older than now minus C; and each of its transactions inserts one
\* delete-marker of the key and makes it the head.
ExpireCurrentUsesItsDays ==
    [][/\ lc'.pc # "panicked"
       /\ (lc.pc = "idle" /\ lc'.pc = "listed" /\ lc'.kind = "expire") =>
              {c.key : c \in lc'.cands}
                  = {k \in Keys : /\ objects[k].present /\ HasPrefix(k, lc'.prefix)
                                  /\ \E v \in versions : /\ v.vid = objects[k].head
                                                          /\ v.createdAt < now - lc'.days}
       /\ (lc.pc = "locked" /\ lc.kind = "expire" /\ lc'.pc # "locked") =>
              \E dm \in versions' :
                  /\ versions' = versions \cup {dm} /\ dm \notin versions
                  /\ dm.isDelete /\ dm.key = lc.cur.key
                  /\ objects'[dm.key].head = dm.vid
      ]_vars

\* C18: over a bucket that does not change, the pages got by passing each
\* NextContinuationToken on hold their keys in ascending byte order and no key
\* and no common prefix twice; and when the page with IsTruncated false has
\* come, they hold every visible key under the prefix and after start-after
\* that has no delimiter past the prefix, and the common prefix of every one
\* that has.
ListPagesComplete ==
    LET vis    == VisibleKeys(objects, versions, lst.prefix, lst.startAfter)
        ascending(q) == \A i, j \in 1..Len(q) : i < j => KeyLess(q[i], q[j])
        items(q) == {q[i] : i \in 1..Len(q)}
    IN  lst.pc \in {"more", "done"} =>
            /\ ascending(lst.keys) /\ ascending(lst.cps)
            /\ lst.pc = "done" =>
                   /\ items(lst.keys) = {k \in vis : ~ HasDelimiter(k, lst.prefix, lst.delim)}
                   /\ items(lst.cps) =
                          {CommonPrefixOf(k, lst.prefix, lst.delim) :
                              k \in {x \in vis : HasDelimiter(x, lst.prefix, lst.delim)}}

\* C19: for a stored body of n bytes, a GET with Range bytes=a-b, 0 <= a <= b < n,
\* answers 206 with Content-Range a-b/n and the bytes a..b; bytes=a- with a < n
\* answers the bytes a..n-1; bytes=-k with k > 0 answers the last min(k, n)
\* bytes; and a spec that is empty, has no dash, has a bound that is no
\* number, or has a >= n or b < a, is answered 416 without a body.
RangeAnswers ==
    LET file  == CHOOSE f \in StorageRead(store, 1) : TRUE
        n     == Len(file)
        i     == IndexByte(rg.spec, Dash)
        left  == SubSeq(rg.spec, 1, i - 1)
        right == SubSeq(rg.spec, i + 1, Len(rg.spec))
        isNum(str) == str # <<>> /\ \A j \in 1..Len(str) : str[j] \in Digits
        a     == Atoi(left)
        b     == Atoi(right)
        k     == IF b < n THEN b ELSE n
        is416 == rg.status = 416 /\ rg.body = <<>>
    IN  (rg.pc = "done" /\ rg.bytes) =>
            IF i = 0 THEN is416
            ELSE IF isNum(left) /\ isNum(right)
            THEN /\ (a <= b /\ b < n) =>
                        /\ rg.status = 206
                        /\ rg.contentRange = <<a, b, n>>
                        /\ rg.body = SubSeq(file, a + 1, b + 1)
                 /\ (a >= n \/ b < a) => is416
            ELSE IF isNum(left) /\ right = <<>>
            THEN IF a < n THEN rg.status = 206 /\ rg.body = SubSeq(file, a + 1, n)
                 ELSE is416
            ELSE IF left = <<>> /\ isNum(right) /\ b > 0
            THEN rg.status = 206 /\ rg.body = SubSeq(file, n - k + 1, n)
            ELSE is416

\* C20: an Object row exists for a key exactly when the key has at some point
\* received a version.  No row and no version exist at the start, so this is:
\* a step that makes the Object row of a key inserts a version of that key, a
\* step that inserts a version of a key leaves its Object row present, and no
\* step removes an Object row.
ObjectRowIffVersion ==
    [][\A k \in Keys :
          LET received == \E v \in versions' : v.key = k /\ v \notin versions
          IN  /\ (objects'[k].present /\ ~ objects[k].present) => received
              /\ received => objects'[k].present
              /\ objects[k].present => objects'[k].present]_vars

\* C21: a PUT ?lifecycle of the rules R on bucket B answered 200 leaves as the
\* rules of B exactly the rules of R, in prefix, status and days, and the rules
\* of every other bucket as they were; one answered 500 leaves the whole table
\* as it was; and while the transaction runs the table readers see is the one
\* from before it.
PolicyReplacedWhole ==
    [][/\ (pl.pc = "tx" /\ pl'.pc = "done" /\ pl'.status = 200) =>
            /\ RulesOf(rules', pl.bucket) = [i \in 1..Len(pl.cfg) |-> ruleFromXML(pl.bucket, pl.cfg[i])]
            /\ \A b \in {x.name : x \in buckets} \ {pl.bucket} : RulesOf(rules', b) = RulesOf(rules, b)
       /\ (pl.pc = "tx" /\ pl'.pc = "done" /\ pl'.status = 500) => rules' = pl.before
       /\ pl'.pc = "tx" => rules' = pl'.before
       /\ rd' # rd => rd'.rows = RulesOf(IF pl.pc = "tx" THEN pl.before ELSE rules, rd'.bucket)]_vars

\* C22: a deletion transaction of the lifecycle worker for a listed version
\* that is no longer there, and the two steps of BlobGC for a listed blob that
\* has neither record nor bytes any more, leave versions, heads, blob records
\* and stored bytes as they were.
StaleStepsChangeNothing ==
    [][LET same == versions' = versions /\ objects' = objects /\ blobs' = blobs /\ store' = store
       IN  /\ (lc.pc = "locked" /\ lc'.pc # "locked" /\ lc.kind \in {"age", "keep", "purge"}
               /\ GetVersionTx(versions, lc.cur.vid) = {}) => same
           /\ (gc.pc = "listed" /\ gc'.pc = "bytes"
               /\ GetBlob(blobs, gc'.cur) = {} /\ StorageRead(store, gc'.cur) = {}) => same
           /\ (gc.pc = "bytes" /\ gc'.pc # "bytes"
               /\ GetBlob(blobs, gc.cur) = {} /\ StorageRead(store, gc.cur) = {}) => same]_vars

\* C23: the file of a blob id exists only when the Commit of its session has
\* renamed the temporary file, and then it holds all the bytes the session
\* was given; while the session is open, after an Abort, after a failed
\* Commit and after a stop of the machine before the rename there is no file
\* of the id, and a file left by a stop after the rename is complete.
VisibleOnlyWhenCommitted ==
    /\ \A f \in store : [id |-> f.id, body |-> f.bytes] \in ws.bodies
    /\ ws.pc \in {"open", "synced", "failed", "aborted"} => StorageRead(store, ws.id) = {}
    /\ \A id \in 1..nextBlob : Cardinality(StorageRead(store, id)) <= 1

\* a file that a stop of the machine after the rename left in place
CommittedFileSurvivedStop ==
    ws.pc = "stopped" /\ ws.body # <<>> /\ StorageRead(store, ws.id) = {ws.body}

\* C24: in a pass of BlobGC the record of a candidate is deleted only in the
\* step after its bytes were deleted, when no file of it is left; a candidate
\* whose bytes deletion failed keeps its record and its bytes; and after a
\* failure on a candidate, of its bytes or of its record, the pass goes on with
\* all the candidates that are left and ends only when none is left.
GcBytesBeforeRecord ==
    [][gc' # gc =>
          /\ \A b \in blobs \ blobs' : gc.pc = "bytes" /\ b.id = gc.cur
                                         /\ StorageRead(store, b.id) = {}
          /\ (gc.pc = "listed" /\ gc'.pc # "bytes") => (blobs' = blobs /\ store' = store)
          /\ gc.pc = "bytes" => store' = store
          /\ gc.pc \in {"listed", "bytes"} =>
                 /\ gc'.cands \subseteq gc.cands
                 /\ gc.pc = "bytes" => gc'.cands = gc.cands
                 /\ Cardinality(gc.cands \ gc'.cands) <= 1
                 /\ (gc'.pc = "idle") = (gc'.cands = {} /\ gc'.cur = NoBlob)]_vars

\* a pass went on after the bytes of a candidate could not be deleted
GcWentOnAfterFailure ==
    /\ gc.pc = "listed" /\ gc.cands # {}
    /\ \E b \in blobs : b.id \notin gc.cands /\ b.state = "ready" /\ StorageRead(store, b.id) # {}
                         /\ BlobRefCountFromVersionsTx(versions, b.id) = 0


\* C25: the noncurrent actions of the lifecycle worker (by age, keep newest)
\* never delete a version that is the head of its key when the deleting
\* transaction runs.
NoncurrentSparesHead ==
    [][(lc.pc = "locked" /\ lc'.pc # "locked" /\ lc.kind \in {"age", "keep"})
         => ~ \E v \in versions :
                  /\ v.vid = lc.cur.vid
                  /\ v \notin versions'
                  /\ objects[v.key].present
                  /\ objects[v.key].head = v.vid]_vars


MaxKeysClamped ==
    (lst.pc # "idle" /\ lst.pages = 1 /\ lst.delim = NoDelim) =>
        LET eff == IF lst.maxKeys < 1 THEN 1
                   ELSE IF lst.maxKeys > 1000 THEN 1000 ELSE lst.maxKeys
            n   == Cardinality(VisibleKeys(objects, versions, lst.prefix, lst.startAfter))
        IN  Len(lst.keys) = IF n < eff THEN n ELSE eff


\* C29: in a ListObjectsV2 response with a delimiter, every scanned key whose
\* remainder after the prefix contains the delimiter is not in Contents and
\* its common prefix (the prefix plus the remainder up to and including the
\* first delimiter) is in CommonPrefixes; CommonPrefixes is in lexicographic
\* order without duplicates; KeyCount is the number of Contents plus the
\* number of CommonPrefixes.
DelimiterPage ==
    (lst.pc # "idle" /\ lst.delim # NoDelim) =>
        LET r        == lst.page
            afterKey == IF lst.ct # NoToken THEN DecodeString(lst.ct) ELSE lst.startAfter
            size     == IF lst.maxKeys > 0 /\ lst.maxKeys <= 1000 THEN lst.maxKeys ELSE 1000
            all      == SortedKeys(VisibleKeys(objects, versions, lst.prefix, afterKey))
            scanned  == {all[i] : i \in {j \in 1..Len(all) : j <= size + 1}}
            rest(k)  == SubSeq(k, Len(lst.prefix) + 1, Len(k))
            cut(k)   == CHOOSE i \in 1..Len(rest(k)) :
                            rest(k)[i] = lst.delim /\ \A j \in 1..(i - 1) : rest(k)[j] # lst.delim
        IN  /\ \A k \in scanned :
                   (\E i \in 1..Len(rest(k)) : rest(k)[i] = lst.delim) =>
                       /\ \A i \in 1..Len(r.Objects) : r.Objects[i] # k
                       /\ \E i \in 1..Len(r.CommonPrefixes) :
                              r.CommonPrefixes[i] = lst.prefix \o SubSeq(rest(k), 1, cut(k))
            /\ \A i, j \in 1..Len(r.CommonPrefixes) :
                   i < j => KeyLess(r.CommonPrefixes[i], r.CommonPrefixes[j])
            /\ r.KeyCount = Len(r.Objects) + Len(r.CommonPrefixes)

\* C29, its case: a page with a delimiter has two common prefixes and a key,
\* and more than one key was folded into a common prefix
PageWithCommonPrefixes ==
    /\ lst.pc # "idle" /\ lst.delim # NoDelim
    /\ Len(lst.page.CommonPrefixes) = 2 /\ Len(lst.page.Objects) >= 1
    /\ \E k1, k2 \in DOMAIN objects :
           /\ k1 # k2 /\ objects[k1].present /\ objects[k2].present
           /\ HasPrefix(k1, lst.page.CommonPrefixes[1]) /\ HasPrefix(k2, lst.page.CommonPrefixes[1])


\* C30: a failure inside a lifecycle pass is skipped: after a transaction of
\* the loop failed, the rows still to come are those that were to come and the
\* loop goes on with them; and no step of a rule, whichever of its thresholds
\* are set, ends the worker.
PassSkipsFailures ==
    [][/\ (lc.pc = "locked" /\ lc'.pc # "locked" /\ <<tables, store>>' = <<tables, store>>)
            => /\ lc'.cands = lc.cands
               /\ lc'.pc = IF lc.cands = {} THEN "idle" ELSE "listed"
       /\ lc'.pc # "panicked"
      ]_vars


\* C31: a request whose signature does not match, or whose signing key cannot
\* be derived, is answered 403 SignatureDoesNotMatch and is not dispatched;
\* VerifySigV4 returned an error for it, never a nil result with a nil error.
SigMismatchForbidden ==
    (/\ au.pc = "done"
     /\ au.r.authz = "aws4" /\ ~ au.r.malformed /\ au.r.scope = "ok" /\ au.r.date = "ok"
     /\ \/ ~ \E u \in Users : u.active /\ u.accessKeyID = au.r.akid
        \/ \E u \in Users : /\ u.active /\ u.accessKeyID = au.r.akid
                             /\ au.r.sig # <<u.secret, au.r.content>>)
    => /\ au.status = 403 /\ au.code = "SignatureDoesNotMatch"
       /\ ~ au.dispatched
       /\ au.err # NoErr
       /\ ~ (au.res = NoResult /\ au.err = NoErr)


\* C32: a first page of ListObjectsV2 without delimiter holds, up to its page
\* size, exactly the keys under the prefix whose head is a version that is no
\* delete-marker: a key whose head is a delete-marker is not listed, and it is
\* listed again once a PUT or a versioned DELETE has made a non-delete version
\* the head.
ListShowsLiveHeads ==
    [][(lst.pc = "idle" /\ lst'.pc # "idle") =>
          LET live == {k \in Keys :
                          /\ objects[k].present
                          /\ \A i \in 1..Len(lst'.prefix) :
                                 i <= Len(k) /\ k[i] = lst'.prefix[i]
                          /\ \E v \in versions :
                                 v.key = k /\ v.vid = objects[k].head /\ ~ v.isDelete}
              page == {lst'.keys[i] : i \in 1..Len(lst'.keys)}
          IN  /\ page \subseteq live
              /\ (lst'.pc = "done" => page = live)
              /\ (lst'.pc = "more" => Len(lst'.keys) = lst'.maxKeys)
      ]_vars

\* C32, its case: the page lists a key that was deleted and put again, and
\* leaves out a key whose head is a delete-marker
DeletedKeyLeftOut ==
    /\ lst.pc = "done"
    /\ \E k1, k2 \in Keys :
           /\ \E i \in 1..Len(lst.keys) : lst.keys[i] = k1
           /\ \E v \in versions : v.key = k1 /\ v.isDelete
           /\ \E v \in versions : v.key = k1 /\ v.vid = objects[k1].head /\ ~ v.isDelete
           /\ \E v \in versions : v.key = k2 /\ v.vid = objects[k2].head /\ v.isDelete
           /\ \A i \in 1..Len(lst.keys) : lst.keys[i] # k2


\* C33: a page with IsTruncated = true carries a NextContinuationToken that is
\* not empty and decodes to a key strictly greater than the key the page was
\* asked after (its continuation-token, else start-after), and the page that
\* follows is never equal to it.
ListMakesProgress ==
    [][/\ (lst'.pc # "idle" /\ lst'.page.IsTruncated) =>
              LET after == IF lst'.ct # NoToken THEN lst'.ct.b64 ELSE lst'.startAfter
                  next  == lst'.page.NextToken.b64
              IN  /\ lst'.page.NextToken # NoToken
                  /\ next # <<>>
                  /\ KeyLess(after, next)
       /\ (lst.pc = "more" /\ lst'.pages = lst.pages + 1) => lst'.page # lst.page
      ]_vars


\* C34: a versionId is resolved among the versions of the addressed key only.
\* A DELETE of key k with the id of no version of k answers 404 and changes no
\* version, no blob, no stored file and no Object row of another key, and adds
\* no delete-marker to k; a GET of k with such an id answers 404.
VersionIdOfAddressedKey ==
    [][/\ \A p \in Procs :
              (/\ DeleteEnds(p) /\ req[p].vid # NoVid
               /\ ~ \E v \in versions : v.vid = req[p].vid /\ v.key = req[p].key)
              => /\ last'.status = 404
                 /\ versions' = versions /\ blobs' = blobs /\ store' = store
                 /\ \A k \in Keys \ {req[p].key} : objects'[k] = objects[k]
       /\ (/\ get.pc = "ver" /\ get.asked # NoVid
           /\ ~ \E v \in versions : v.vid = get.asked /\ v.key = get.key)
              => get'.pc = "done" /\ get'.resp.status = 404
      ]_vars


\* C35: every idempotency record names a version that exists and belongs to
\* the record's key, and a PUT answered 200 names a version that exists.
IdemNamesLiveVersion ==
    /\ \A e \in idem : \E v \in versions : v.vid = e.vid /\ v.key = e.key
    /\ (last.op = "put" /\ last.status = 200) => \E v \in versions : v.vid = last.vid


OwnerIsolation ==
    [][/\ \A p \in Procs :
              (/\ req[p].pc = "locked" /\ req[p].op = "put" /\ req'[p].pc = "idle"
               /\ BucketIDByName(buckets, Bucket, req[p].user) = {})
              => versions' = versions /\ objects' = objects
       /\ \A b \in buckets, c \in buckets' :
              (b.name = c.name /\ b.owner # NoUser) => c.owner = b.owner
      ]_vars


\* C38: every 206 carries Content-Range s-e/n with 0 <= s <= e <= n - 1 and a
\* Content-Length of e - s + 1, which is the number of bytes sent; a range
\* that ends past the end of the blob announces no more bytes than it has.
PartialContentExact ==
    (rg.pc = "done" /\ rg.status = 206) =>
        /\ rg.contentRange # NoContentRange
        /\ LET s == rg.contentRange[1]
               e == rg.contentRange[2]
               n == rg.contentRange[3]
           IN  /\ 0 <= s /\ s <= e /\ e <= n - 1
               /\ rg.contentLength = e - s + 1
               /\ rg.contentLength = Len(rg.body)


\* C39: the KeyCount of every ListObjectsV2 response, the number of its
\* Contents plus the number of its CommonPrefixes, is at most the max-keys in
\* effect, also when every scanned key gives a common prefix of its own.
KeyCountWithinMaxKeys ==
    lst.pc # "idle" =>
        LET size == IF lst.maxKeys > 0 /\ lst.maxKeys <= 1000 THEN lst.maxKeys
                    ELSE DefaultMaxKeys
        IN  /\ lst.page.KeyCount = Len(lst.page.Objects) + Len(lst.page.CommonPrefixes)
            /\ lst.page.KeyCount <= size


\* C40: a GET, without or with versionId, that runs while DELETEs with
\* versionId commit is answered 200 with the id of the version row it read
\* and the complete bytes of its blob, or 404: never InternalError; and a GET without
\* versionId of a key whose head was a non-delete version from its beginning
\* to its end (under SpecReadRace no delete-marker is made) is not answered 404.
ReadsSeeCommittedState ==
    [][(get.pc # "done" /\ get'.pc = "done") =>
           /\ get'.resp.status \in {200, 404}
           /\ get'.resp.status = 200 =>
                  /\ get'.resp.vid = get.vid
                  /\ \E b \in GetBlob(blobs, get.blob) : b.checksum = Checksum(get'.resp.bytes)
           /\ (/\ get.asked = NoVid
               /\ \A r \in get.first \cup RightAnswers(get.key) : r.status = 200)
              => get'.resp.status # 404
      ]_vars

=============================================================================
